---- MODULE Spec2Model ----
(***************************************************************************)
(* ExaCheck - ExaBGP health checker.                                       *)
(*                                                                         *)
(* Spec     : one check worker (worker.py): the probe loop, the rise/fall  *)
(*            state machine, announce/withdraw and the signal handler.     *)
(* SpecWorkerSig : the same worker with the success handler in two steps,  *)
(*            so that a signal can arrive between them.                    *)
(* SpecSup  : the master process (exacheck.py, configuration.py): worker   *)
(*            fan-out, liveness respawn and live configuration reload.     *)
(* SpecSupEnv : SpecSup with a configuration file that can be removed and  *)
(*            with termination signals to the master.                      *)
(* SpecExec : one worker's calls of CheckExecutor.execute (checkexecutor.py)*)
(*            under the SIGALRM deadline, with time.                       *)
(* SpecSleeper : one Sleeper (sleeper.py) from construction to sleep().    *)
(* SpecAnnouncer : one Announcer (announcer.py): route templates with      *)
(*            their community clauses, and the lines it prints.            *)
(* SpecRoutes : the same Announcer over the optional attributes of a check *)
(*            (neighbors, metric, local preference, AS path, path id).     *)
(* SpecValidator : the next hop validation of one candidate check.        *)
(* SpecRestart : the worker of one check and its replacements by a reload, *)
(*            writing to the routing daemon.                               *)
(* SpecRespawn : the worker of one check across crashes and respawns, with *)
(*            fairness of the worker loop and of the monitoring loop.      *)
(* SpecRemote : one call of a remote probe over its resolved addresses,    *)
(*            under the deadline alarm.                                    *)
(***************************************************************************)
EXTENDS Integers, Sequences, FiniteSets, TLC

\* ---------------------------------------------------------------- bounds
MaxThreshold == 3       \* largest rise / fall value explored
MaxTicks == 6           \* worker loop iterations explored
MaxChecks == 2          \* longest check list of a configuration
MaxMtime == 2           \* number of configuration file modifications
MaxPid == 4             \* number of worker processes ever created
NumCfg == 2             \* distinct configurations a check of one name can have
MaxTimeout == 2         \* largest args.timeout (seconds) explored
MaxClock == 5           \* seconds of time explored by the executor
MaxCalls == 2           \* calls of execute() explored
PerSecond == 2          \* resolution of the Sleeper's clock: ticks per second
MaxInterval == 10       \* largest Sleeper interval, seconds
MaxElapsed == 12        \* longest measured iteration, seconds
MaxStart == 1           \* latest monotonic() reading at construction, ticks
MaxCommunities == 3     \* longest community list of a check
MaxPrefixes == 4        \* prefixes of a check under validation
MaxKills == 2           \* worker crashes explored
MaxAddrs == 4           \* addresses a host resolves to

\* ------------------------------------------------------------- constants
None == 0               \* an absent Optional[PositiveInt] / Optional[datetime]
NoResult == "none"      \* an absent Optional[CheckResult]
MaxDigits == 10         \* \d{1,10} in the community patterns of the announcer

VARIABLES
    \* ---- worker process
    check,          \* Worker.check: [rise, fall, disable]
    check_state,    \* Worker.check_state (CheckState)
    out,            \* commands written to stdout by the announcer, in order
    notes,          \* notifications sent by the worker, in order
    now,            \* datetime.now(), advanced once per loop iteration
    wpc,            \* "running" | "announced" (inside success()) | "exited"
    hist,           \* history: one record per completed loop iteration
    \* ---- master process
    settings,       \* Configuration.settings: [checks, live_reload, notifications]
    mtime,          \* Configuration.mtime
    file,           \* content of the configuration file on disk: [kind, settings]
    file_mtime,     \* st_mtime of the configuration file on disk
    jobs,           \* ExaCheck.jobs: sequence of [check, proc]
    alive,          \* set of process handles whose is_alive() is true
    next_pid,       \* next fresh process handle
    notifier,       \* ExaCheck.notifications: the configuration it was built from
    spc,            \* "init" | "loop" | "crashed"
    last,           \* history: what the last monitoring tick did
    \* ---- check executor (inside one worker process)
    timeout,        \* method.args.timeout, seconds
    clock,          \* time, seconds
    alarm,          \* time at which the pending SIGALRM is due, 0 when none is pending
    epc,            \* position of the worker relative to execute()
    probed,         \* how method.check() of the current call ended
    fired,          \* history: position at which the alarm of the current call fired
    started,        \* history: time at which the current call set its alarm
    eresult,        \* the CheckResult of the current call
    outcome,        \* history: "idle" | "running" | "returned" | "raised" | "misfire"
    calls,          \* history: number of calls of execute() so far
    \* ---- sleeper (times in ticks of 1 / PerSecond seconds)
    _interval,      \* Sleeper._interval
    _start,         \* Sleeper._start
    _sleep_time,    \* Sleeper._sleep_time
    finish_time,    \* history: the monotonic() reading taken by finish()
    slpc,           \* "started" | "finished" | "slept"
    \* ---- announcer (strings are sequences of characters)
    acheck,         \* the Check the announcer is built for
    routes,         \* Announcer.routes: the route templates
    lines,          \* the lines printed by the last send_command
    apc,            \* "new" | "ready" | "sent"
    \* ---- check validation
    candidate,      \* the fields of a Check under validation: [nexthop, prefixes]
    verdict,        \* "none" | "accepted" | "ValidationError"
    \* ---- the routes of one check in the routing daemon
    rcheck,         \* the check: [rise, fall, disable]
    service,        \* the probed service: "ok" | "failing"
    cur,            \* the worker in ExaCheck.jobs: [status, cs], status "running" | "dead"
    prev,           \* the worker a restart terminated: [status, cs], status "none" | "terminating" | "exited"
    rib,            \* the last command the routing daemon read: "none" | "announce" | "withdraw"
    late,           \* history: the terminated worker wrote after its replacement announced
    kills,          \* history: number of worker crashes
    beat,           \* history: parity of the iterations of the live worker's loop
    \* ---- remote probe (inside one call of execute())
    all_valid,      \* args.all_valid
    ips,            \* number of addresses the host resolves to
    addr,           \* position in ips of the address being checked
    mpc,            \* "check_one" | "between" | "returned"
    fired_at,       \* history: position at which SIGALRM was delivered, 0 while it is pending
    mresult,        \* what check() returned: "none" | "success" | "failure"
    checked         \* history: per address checked, [ok, armed]

wvars == <<check, check_state, out, notes, now, wpc, hist>>
svars == <<settings, mtime, file, file_mtime, jobs, alive, next_pid, notifier, spc, last>>
avars == <<acheck, routes, lines, apc>>
slvars == <<_interval, _start, _sleep_time, finish_time, slpc>>
evars == <<timeout, clock, alarm, epc, probed, fired, started, eresult, outcome, calls>>
vvars == <<candidate, verdict>>
rvars == <<rcheck, service, cur, prev, rib, late, kills, beat>>
mvars == <<all_valid, ips, addr, mpc, fired_at, mresult, checked>>
vars == <<check, check_state, out, notes, now, wpc, hist,
          settings, mtime, file, file_mtime, jobs, alive, next_pid, notifier, spc, last,
          timeout, clock, alarm, epc, probed, fired, started, eresult, outcome, calls,
          _interval, _start, _sleep_time, finish_time, slpc,
          acheck, routes, lines, apc,
          candidate, verdict,
          rcheck, service, cur, prev, rib, late, kills, beat,
          all_valid, ips, addr, mpc, fired_at, mresult, checked>>

\* what a step of the worker loop, of the master, of the executor leaves alone
nonworker == <<svars, evars, slvars, avars, vvars, rvars, mvars>>
nonsup == <<wvars, evars, slvars, avars, vvars, rvars, mvars>>
nonexec == <<wvars, svars, slvars, avars, vvars, rvars, mvars>>
nonsleeper == <<wvars, svars, evars, avars, vvars, rvars, mvars>>
nonannouncer == <<wvars, svars, evars, slvars, vvars, rvars, mvars>>
nonvalidator == <<wvars, svars, avars, slvars, evars, rvars, mvars>>
nonroute == <<wvars, svars, avars, slvars, evars, vvars, mvars>>
nonremote == <<wvars, svars, avars, slvars, evars, vvars, rvars>>

\* ======================================================================
\* Worker
\* ======================================================================

\* CheckState(...) constructor: every field not passed is None (checkstate.py)
CheckState(state, advertised, last_result, up_since, down_since, rise, fall) ==
    [state |-> state, advertised |-> advertised, last_result |-> last_result,
     up_since |-> up_since, down_since |-> down_since, rise |-> rise, fall |-> fall]

\* the stdout / notification channels threaded through the handlers
IO(o, n) == [out |-> o, notes |-> n]

\* Announcer.announce / Announcer.withdraw -> send_command: one entry per call
AnnouncerAnnounce(o) == Append(o, [command |-> "announce", silent |-> FALSE])
AnnouncerWithdraw(o, silent) == Append(o, [command |-> "withdraw", silent |-> silent])

\* announce() without the "already advertised" test
announce_unguarded(cs, io) ==
    IO(AnnouncerAnnounce(io.out),
       Append(io.notes, [event |-> "announce", reason |-> "up"]))

\* Worker.announce
announce(cs, io) ==
    IF cs.advertised
    THEN io
    ELSE IO(AnnouncerAnnounce(io.out),
            Append(io.notes, [event |-> "announce", reason |-> "up"]))

\* Worker.withdraw
withdraw(cs, io) ==
    IF ~cs.advertised
    THEN io
    ELSE IO(AnnouncerWithdraw(io.out, FALSE),
            Append(io.notes,
                   [event |-> "withdraw",
                    reason |-> IF cs.state = "disabled" THEN "disabled" ELSE "failed"]))

\* success() comparing the rise counter with > instead of >=
success_strict(c, cs, result, io, t) ==
    IF cs.advertised
    THEN [cs |-> CheckState("up", TRUE, result, cs.up_since, None, None, None),
          io |-> io]
    ELSE IF cs.rise # None /\ (cs.rise + 1) > c.rise
    THEN [cs |-> CheckState("up", TRUE, result, t, None, None, None),
          io |-> announce(cs, io)]
    ELSE [cs |-> CheckState("rising", FALSE, result, None, cs.down_since,
                            IF cs.rise # None THEN cs.rise + 1 ELSE 1, None),
          io |-> io]

\* Worker.success: returns the new check_state and the channels
success(c, cs, result, io, t) ==
    IF cs.advertised
    THEN [cs |-> CheckState("up", TRUE, result, cs.up_since, None, None, None),
          io |-> io]
    ELSE IF cs.rise # None /\ (cs.rise + 1) >= c.rise
    THEN [cs |-> CheckState("up", TRUE, result, t, None, None, None),
          io |-> announce(cs, io)]
    ELSE [cs |-> CheckState("rising", FALSE, result, None, cs.down_since,
                            IF cs.rise # None THEN cs.rise + 1 ELSE 1, None),
          io |-> io]

\* failure() whose "not advertised" branch carries the rise counter forward
failure_keeps_rise(c, cs, result, io, t) ==
    IF result = "disabled"
    THEN [cs |-> CheckState("disabled", FALSE, result, None,
                            IF cs.advertised THEN t ELSE cs.down_since, None, None),
          io |-> IF cs.advertised THEN withdraw(cs, io) ELSE io]
    ELSE IF ~cs.advertised
    THEN [cs |-> CheckState("down", FALSE, result, None, cs.up_since, cs.rise, None),
          io |-> io]
    ELSE IF cs.fall # None /\ (cs.fall + 1) >= c.fall
    THEN [cs |-> CheckState("down", FALSE, result, None, t, None, None),
          io |-> withdraw(cs, io)]
    ELSE [cs |-> CheckState("falling", TRUE, result, cs.up_since, None, None,
                            IF cs.fall # None THEN cs.fall + 1 ELSE 1),
          io |-> io]

\* failure() whose disabled branch leaves the advertised flag as it was
failure_disabled_keeps_advertised(c, cs, result, io, t) ==
    IF result = "disabled"
    THEN [cs |-> CheckState("disabled", cs.advertised, result, None,
                            IF cs.advertised THEN t ELSE cs.down_since, None, None),
          io |-> IF cs.advertised THEN withdraw(cs, io) ELSE io]
    ELSE IF ~cs.advertised
    THEN [cs |-> CheckState("down", FALSE, result, None, cs.up_since, None, None),
          io |-> io]
    ELSE IF cs.fall # None /\ (cs.fall + 1) >= c.fall
    THEN [cs |-> CheckState("down", FALSE, result, None, t, None, None),
          io |-> withdraw(cs, io)]
    ELSE [cs |-> CheckState("falling", TRUE, result, cs.up_since, None, None,
                            IF cs.fall # None THEN cs.fall + 1 ELSE 1),
          io |-> io]

\* failure() whose falling branch clears the advertised flag
failure_falling_not_advertised(c, cs, result, io, t) ==
    IF result = "disabled"
    THEN [cs |-> CheckState("disabled", FALSE, result, None,
                            IF cs.advertised THEN t ELSE cs.down_since, None, None),
          io |-> IF cs.advertised THEN withdraw(cs, io) ELSE io]
    ELSE IF ~cs.advertised
    THEN [cs |-> CheckState("down", FALSE, result, None, cs.up_since, None, None),
          io |-> io]
    ELSE IF cs.fall # None /\ (cs.fall + 1) >= c.fall
    THEN [cs |-> CheckState("down", FALSE, result, None, t, None, None),
          io |-> withdraw(cs, io)]
    ELSE [cs |-> CheckState("falling", FALSE, result, cs.up_since, None, None,
                            IF cs.fall # None THEN cs.fall + 1 ELSE 1),
          io |-> io]

\* Worker.failure
failure(c, cs, result, io, t) ==
    IF result = "disabled"
    THEN [cs |-> CheckState("disabled", FALSE, result, None,
                            IF cs.advertised THEN t ELSE cs.down_since, None, None),
          io |-> IF cs.advertised THEN withdraw(cs, io) ELSE io]
    ELSE IF ~cs.advertised
    THEN [cs |-> CheckState("down", FALSE, result, None, cs.up_since, None, None),
          io |-> io]
    ELSE IF cs.fall # None /\ (cs.fall + 1) >= c.fall
    THEN [cs |-> CheckState("down", FALSE, result, None, t, None, None),
          io |-> withdraw(cs, io)]
    ELSE [cs |-> CheckState("falling", TRUE, result, cs.up_since, None, None,
                            IF cs.fall # None THEN cs.fall + 1 ELSE 1),
          io |-> io]

\* the suffix of s after its first n elements
Drop(s, n) == SubSeq(s, n + 1, Len(s))

\* one iteration of the loop in Worker.run; exists = the disable file exists,
\* probe = what executor.execute() returns when it is called
RunIteration(exists, probe) ==
    LET io0 == IO(out, notes)
        disabled == check.disable /\ exists
        result == IF disabled THEN "disabled" ELSE probe
        \* lines 105-125: the disabled result goes through failure() first
        r1 == IF disabled
              THEN failure(check, check_state, result, io0, now)
              ELSE [cs |-> check_state, io |-> io0]
        \* lines 127-133
        r2 == IF result = "success"
              THEN success(check, r1.cs, result, r1.io, now)
              ELSE failure(check, r1.cs, result, r1.io, now)
    IN  /\ check_state' = r2.cs
        /\ out' = r2.io.out
        /\ notes' = r2.io.notes
        /\ now' = now + 1
        /\ hist' = Append(hist, [result |-> result,
                                 disable_exists |-> disabled,
                                 probed |-> ~disabled,
                                 before |-> check_state,
                                 after |-> r2.cs,
                                 cmds |-> Drop(r2.io.out, Len(out)),
                                 evts |-> Drop(r2.io.notes, Len(notes))])
        /\ UNCHANGED <<check, wpc>>

WorkerTick ==
    /\ wpc = "running"
    /\ Len(hist) < MaxTicks
    /\ \E exists \in BOOLEAN, probe \in {"success", "failure"} :
          RunIteration(exists, probe)
    /\ UNCHANGED nonworker

\* cleanup() that withdraws without looking at check_state.advertised
cleanup_always_withdraws ==
    /\ out' = AnnouncerWithdraw(out, TRUE)
    /\ wpc' = "exited"
    /\ UNCHANGED <<check, check_state, notes, now, hist>>

\* Worker.cleanup: the SIGINT / SIGTERM handler
cleanup ==
    /\ out' = IF check_state.advertised THEN AnnouncerWithdraw(out, TRUE) ELSE out
    /\ wpc' = "exited"
    /\ UNCHANGED <<check, check_state, notes, now, hist>>

WorkerSignal ==
    /\ wpc = "running"
    /\ cleanup
    /\ UNCHANGED nonworker

\* Worker.success, lines 193-199: the probe succeeded and the service has
\* risen; self.announce() has written the announce lines and sent the
\* notification, self.check_state is not yet replaced
SuccessAnnounces ==
    /\ wpc = "running"
    /\ Len(hist) < MaxTicks
    /\ \E exists \in BOOLEAN : ~(check.disable /\ exists)
    /\ ~check_state.advertised
    /\ check_state.rise # None /\ (check_state.rise + 1) >= check.rise
    /\ LET io == announce(check_state, IO(out, notes))
       IN  /\ out' = io.out
           /\ notes' = io.notes
    /\ wpc' = "announced"
    /\ UNCHANGED <<check, check_state, now, hist>>
    /\ UNCHANGED nonworker

\* Worker.success, lines 200-208: check_state is replaced and the iteration
\* ends
SuccessReplaces ==
    /\ wpc = "announced"
    /\ check_state' = CheckState("up", TRUE, "success", now, None, None, None)
    /\ now' = now + 1
    /\ hist' = Append(hist, [result |-> "success",
                             disable_exists |-> FALSE,
                             probed |-> TRUE,
                             before |-> check_state,
                             after |-> check_state',
                             cmds |-> <<out[Len(out)]>>,
                             evts |-> <<notes[Len(notes)]>>])
    /\ wpc' = "running"
    /\ UNCHANGED <<check, out, notes>>
    /\ UNCHANGED nonworker

\* an iteration of the loop other than the one in which the service rises
QuietTick ==
    /\ WorkerTick
    /\ Len(out') = Len(out) \/ out'[Len(out')].command # "announce"

\* SIGINT / SIGTERM delivered between self.announce() and the replacement
\* of check_state in Worker.success
SignalInSuccess ==
    /\ wpc = "announced"
    /\ cleanup
    /\ UNCHANGED nonworker

\* Worker.__init__
WorkerInit ==
    /\ check \in [rise : 0..MaxThreshold, fall : 0..MaxThreshold, disable : BOOLEAN]
    /\ check_state = CheckState("startup", FALSE, NoResult, None, None, None, None)
    /\ out = <<>>
    /\ notes = <<>>
    /\ now = 1
    /\ wpc = "running"
    /\ hist = <<>>

\* ======================================================================
\* Announcer (announcer.py) and the community validator (settings/check.py)
\* ======================================================================

\* strings are sequences of one-character strings
Digits == {"0", "1", "2", "3", "4", "5", "6", "7", "8", "9"}

\* str.join
RECURSIVE Join(_, _)
Join(strs, sep) ==
    IF strs = <<>> THEN <<>>
    ELSE IF Len(strs) = 1 THEN strs[1]
    ELSE strs[1] \o sep \o Join(Tail(strs), sep)

\* the fields of s between the occurrences of the character sep
RECURSIVE Fields(_, _)
Fields(s, sep) ==
    IF \A i \in 1..Len(s) : s[i] # sep THEN <<s>>
    ELSE LET k == CHOOSE i \in 1..Len(s) :
                     s[i] = sep /\ \A j \in 1..(i - 1) : s[j] # sep
         IN  <<SubSeq(s, 1, k - 1)>> \o Fields(SubSeq(s, k + 1, Len(s)), sep)

\* the regular expression \d{lo,hi} matched against a whole field
DigitRun(f, lo, hi) ==
    /\ Len(f) >= lo /\ Len(f) <= hi
    /\ \A i \in 1..Len(f) : f[i] \in Digits

\* a standard_pattern of 16-bit fields, ^\d{1,5}:\d{1,5}$
standard_pattern_16bit(c) ==
    LET f == Fields(c, ":")
    IN  Len(f) = 2 /\ \A i \in 1..Len(f) : DigitRun(f[i], 1, 5)

\* _generate_communities: standard_pattern, ^\d{1,10}:\d{1,10}$
standard_pattern(c) ==
    LET f == Fields(c, ":")
    IN  Len(f) = 2 /\ \A i \in 1..Len(f) : DigitRun(f[i], 1, MaxDigits)

\* _generate_communities: large_pattern, ^\d{1,10}:\d{1,10}:\d{1,10}$
large_pattern(c) ==
    LET f == Fields(c, ":")
    IN  Len(f) = 3 /\ \A i \in 1..Len(f) : DigitRun(f[i], 1, MaxDigits)

\* the well-known community names the validator accepts
WellKnown ==
    {<<"n", "o", "-", "e", "x", "p", "o", "r", "t">>,
     <<"n", "o", "-", "a", "d", "v", "e", "r", "t", "i", "s", "e">>,
     <<"n", "o", "-", "e", "x", "p", "o", "r", "t", "-", "s", "u", "b", "c", "o", "n", "f", "e", "d">>,
     <<"i", "n", "t", "e", "r", "n", "e", "t">>,
     <<"l", "o", "c", "a", "l", "-", "a", "s">>}

\* Check.validate_communities: community_regex,
\* ^(\d+:\d+(:\d+)?|no-export|no-advertise|no-export-subconfed|internet|local-as)$
community_regex(c) ==
    LET f == Fields(c, ":")
    IN  \/ /\ Len(f) \in {2, 3}
           /\ \A i \in 1..Len(f) : DigitRun(f[i], 1, Len(c))
        \/ c \in WellKnown

\* a _generate_communities that renders the large bucket first
_generate_communities_large_first(communities) ==
    LET standard == SelectSeq(communities, standard_pattern)
        IsLarge(c) == ~standard_pattern(c) /\ large_pattern(c)
        IsExtended(c) == ~standard_pattern(c) /\ ~large_pattern(c)
        large == SelectSeq(communities, IsLarge)
        extended == SelectSeq(communities, IsExtended)
        community_string ==
            (IF large # <<>>
             THEN <<<<"l", "a", "r", "g", "e", "-", "c", "o", "m", "m", "u", "n", "i", "t", "y", " ", "[">> \o Join(large, <<" ">>) \o <<"]">>>>
             ELSE <<>>)
            \o (IF standard # <<>>
                THEN <<<<"c", "o", "m", "m", "u", "n", "i", "t", "y", " ", "[">> \o Join(standard, <<" ">>) \o <<"]">>>>
                ELSE <<>>)
            \o (IF extended # <<>>
                THEN <<<<"e", "x", "t", "e", "n", "d", "e", "d", "-", "c", "o", "m", "m", "u", "n", "i", "t", "y", " ", "[">> \o Join(extended, <<" ">>) \o <<"]">>>>
                ELSE <<>>)
    IN  Join(community_string, <<" ">>)

\* Announcer._generate_communities: the three buckets, then the clauses
\* "community [...]", "large-community [...]", "extended-community [...]"
_generate_communities(communities) ==
    LET standard == SelectSeq(communities, standard_pattern)
        IsLarge(c) == ~standard_pattern(c) /\ large_pattern(c)
        IsExtended(c) == ~standard_pattern(c) /\ ~large_pattern(c)
        large == SelectSeq(communities, IsLarge)
        extended == SelectSeq(communities, IsExtended)
        community_string ==
            (IF standard # <<>>
             THEN <<<<"c", "o", "m", "m", "u", "n", "i", "t", "y", " ", "[">> \o Join(standard, <<" ">>) \o <<"]">>>>
             ELSE <<>>)
            \o (IF large # <<>>
                THEN <<<<"l", "a", "r", "g", "e", "-", "c", "o", "m", "m", "u", "n", "i", "t", "y", " ", "[">> \o Join(large, <<" ">>) \o <<"]">>>>
                ELSE <<>>)
            \o (IF extended # <<>>
                THEN <<<<"e", "x", "t", "e", "n", "d", "e", "d", "-", "c", "o", "m", "m", "u", "n", "i", "t", "y", " ", "[">> \o Join(extended, <<" ">>) \o <<"]">>>>
                ELSE <<>>)
    IN  Join(community_string, <<" ">>)

\* str.format: "{{" and "}}" give one brace, "{name}" gives args[name]
RECURSIVE Format(_, _)
Format(s, args) ==
    IF \A i \in 1..Len(s) : s[i] \notin {"{", "}"} THEN s
    ELSE LET b == CHOOSE i \in 1..Len(s) :
                     s[i] \in {"{", "}"} /\ \A j \in 1..(i - 1) : s[j] \notin {"{", "}"}
             head == SubSeq(s, 1, b - 1)
         IN  IF b < Len(s) /\ s[b + 1] = s[b]
             THEN head \o <<s[b]>> \o Format(SubSeq(s, b + 2, Len(s)), args)
             ELSE LET k == CHOOSE i \in (b + 1)..Len(s) :
                               s[i] = "}" /\ \A j \in (b + 1)..(i - 1) : s[j] # "}"
                  IN  head \o args[SubSeq(s, b + 1, k - 1)]
                           \o Format(SubSeq(s, k + 1, Len(s)), args)

\* the prefixes and the next hop of the modelled checks
Prefix1 == <<"1", "0", ".", "0", ".", "0", ".", "1", "/", "3", "2">>
Prefix2 == <<"1", "0", ".", "0", ".", "0", ".", "2", "/", "3", "2">>
NextHop == <<"s", "e", "l", "f">>

\* an absent Optional[NonNegativeInt] (0 is a value of the field)
Unset == 0 - 1

\* Python truthiness of an Optional[NonNegativeInt]: None and 0 are false
Truthy(n) == n # Unset /\ n # 0

\* f"{n}" of a non-negative integer
RECURSIVE IntToStr(_)
IntToStr(n) ==
    IF n < 10 THEN <<<<"0", "1", "2", "3", "4", "5", "6", "7", "8", "9">>[n + 1]>>
    ELSE IntToStr(n \div 10) \o <<<<"0", "1", "2", "3", "4", "5", "6", "7", "8", "9">>[(n % 10) + 1]>>

\* the attribute values of the modelled checks
MetricUp == 100
MetricDown == 500
LocalPref == 200
PathId == 7

\* the neighbors and the AS path of the modelled checks
Neighbor1 == <<"1", "9", "2", ".", "0", ".", "2", ".", "1">>
Neighbor2 == <<"1", "9", "2", ".", "0", ".", "2", ".", "2">>
AsPath == <<"6", "5", "0", "0", "0", " ", "6", "5", "0", "0", "1">>

\* Announcer.generate_routes: the template clauses in order, joined by
\* spaces, then one route per prefix.  An absent list or string is <<>>.
generate_routes(chk) ==
    LET neighbors == [k \in 1..Len(chk.neighbors) |-> <<"n", "e", "i", "g", "h", "b", "o", "r", " ">> \o chk.neighbors[k]]
        route_template ==
            (IF chk.neighbors # <<>> THEN <<Join(neighbors, <<",", " ">>)>> ELSE <<>>)
            \o <<<<"{", "{", "c", "o", "m", "m", "a", "n", "d", "}", "}">>, <<"r", "o", "u", "t", "e", " ", "{", "p", "r", "e", "f", "i", "x", "}">>, <<"n", "e", "x", "t", "-", "h", "o", "p", " ">> \o chk.nexthop>>
            \o (IF Truthy(chk.metric) \/ Truthy(chk.metric_down)
                THEN <<<<"{", "{", "m", "e", "t", "r", "i", "c", "}", "}">>>>
                ELSE <<>>)
            \o (IF Truthy(chk.local_preference)
                THEN <<<<"l", "o", "c", "a", "l", "-", "p", "r", "e", "f", "e", "r", "e", "n", "c", "e", " ">> \o IntToStr(chk.local_preference)>>
                ELSE <<>>)
            \o (IF chk.communities # <<>>
                THEN <<_generate_communities(chk.communities)>>
                ELSE <<>>)
            \o (IF chk.as_path # <<>>
                THEN <<<<"a", "s", "-", "p", "a", "t", "h", " ">> \o chk.as_path>>
                ELSE <<>>)
            \o (IF Truthy(chk.path_id)
                THEN <<<<"p", "a", "t", "h", "-", "i", "n", "f", "o", "r", "m", "a", "t", "i", "o", "n", " ">> \o IntToStr(chk.path_id)>>
                ELSE <<>>)
        route_template_string == Join(route_template, <<" ">>)
    IN  [i \in 1..Len(chk.prefixes) |->
            Format(route_template_string,
                   [n \in {<<"p", "r", "e", "f", "i", "x">>} |-> chk.prefixes[i]])]

\* Announcer.send_command: med is f"med {metric}" for a truthy metric and
\* None otherwise; str.format renders None as the text "None"
send_command(rts, command, metric) ==
    LET med == IF Truthy(metric) THEN <<"m", "e", "d", " ">> \o IntToStr(metric) ELSE <<"N", "o", "n", "e">>
    IN  [i \in 1..Len(rts) |->
            Format(rts[i], [n \in {<<"c", "o", "m", "m", "a", "n", "d">>, <<"m", "e", "t", "r", "i", "c">>} |->
                               IF n = <<"c", "o", "m", "m", "a", "n", "d">> THEN command ELSE med])]

\* the community strings explored
CommunityPool ==
    {<<"6", "5", "0", "0", "0", ":", "1", "0", "0">>,
     <<"6", "5", "0", "0", "0", ":", "1", "0", "0", ":", "5">>,
     <<"6", "5", "0", "0", "0", ":", "9", "9", "9", "0", "0", "0", "0", "0", "0">>,
     <<"6", "5", "0", "0", "0", ":", "1", "2", "3", "4", "5", "6", "7", "8", "9", "0", "1">>,
     <<"n", "o", "-", "e", "x", "p", "o", "r", "t">>,
     <<"t", "a", "r", "g", "e", "t", ":", "1", ":", "1">>}

\* the community lists that pass Check.validate_communities
RECURSIVE ListsUpTo(_, _)
ListsUpTo(S, n) ==
    IF n = 0 THEN {<<>>}
    ELSE LET shorter == ListsUpTo(S, n - 1)
         IN  shorter \cup {Append(l, x) : l \in shorter, x \in S}

ValidCommunityLists ==
    ListsUpTo({c \in CommunityPool : community_regex(c)}, MaxCommunities)

\* Announcer.__init__: self.routes = generate_routes(check)
AnnouncerNew ==
    /\ apc = "new"
    /\ routes' = generate_routes(acheck)
    /\ apc' = "ready"
    /\ UNCHANGED <<acheck, lines>>
    /\ UNCHANGED nonannouncer

\* Worker.announce / Worker.withdraw: Announcer.announce or
\* Announcer.withdraw with metric = check.metric
AnnouncerSend ==
    /\ apc \in {"ready", "sent"}
    /\ \E command \in {<<"a", "n", "n", "o", "u", "n", "c", "e">>, <<"w", "i", "t", "h", "d", "r", "a", "w">>} :
          lines' = send_command(routes, command, acheck.metric)
    /\ apc' = "sent"
    /\ UNCHANGED <<acheck, routes>>
    /\ UNCHANGED nonannouncer

\* a validated Check
AnnouncerInit ==
    /\ acheck \in [prefixes : {<<Prefix1>>, <<Prefix1, Prefix2>>},
                   nexthop : {NextHop},
                   communities : ValidCommunityLists,
                   neighbors : {<<>>},
                   metric : {Unset}, metric_down : {Unset},
                   local_preference : {Unset},
                   as_path : {<<>>},
                   path_id : {Unset}]
    /\ routes = <<>>
    /\ lines = <<>>
    /\ apc = "new"

\* a validated Check with any combination of the optional attributes
RoutesInit ==
    /\ acheck \in [prefixes : {<<Prefix1>>, <<Prefix1, Prefix2>>},
                   nexthop : {NextHop},
                   communities : {<<>>, <<<<"6", "5", "0", "0", "0", ":", "1", "0", "0">>, <<"n", "o", "-", "e", "x", "p", "o", "r", "t">>>>},
                   neighbors : {<<>>, <<Neighbor1>>, <<Neighbor1, Neighbor2>>},
                   metric : {Unset, 0, MetricUp},
                   metric_down : {Unset, 0, MetricDown},
                   local_preference : {Unset, 0, LocalPref},
                   as_path : {<<>>, AsPath},
                   path_id : {Unset, 0, PathId}]
    /\ routes = <<>>
    /\ lines = <<>>
    /\ apc = "new"

\* the announcer is not part of the other specifications
AnnouncerIdle ==
    /\ acheck = [prefixes |-> <<Prefix1>>, nexthop |-> NextHop, communities |-> <<>>,
                 neighbors |-> <<>>, metric |-> Unset, metric_down |-> Unset,
                 local_preference |-> Unset, as_path |-> <<>>, path_id |-> Unset]
    /\ routes = <<>>
    /\ lines = <<>>
    /\ apc = "new"

\* ======================================================================
\* Check validation (settings/check.py)
\* ======================================================================

\* the sequences over S of length at most n
SeqsUpTo(S, n) == UNION {[1..k -> S] : k \in 0..n}

\* all(isinstance(prefix, cls) for prefix in prefixes)
all_isinstance(prefixes, cls) == \A i \in 1..Len(prefixes) : prefixes[i] = cls

\* the same test with any() in the place of all()
validate_nexthop_any(nexthop, prefixes) ==
    IF nexthop = "self" THEN "accepted"
    ELSE IF nexthop = "IPv4Address"
            /\ ~(\E i \in 1..Len(prefixes) : prefixes[i] = "IPv4Network")
         THEN "ValidationError"
    ELSE IF nexthop = "IPv6Address"
            /\ ~(\E i \in 1..Len(prefixes) : prefixes[i] = "IPv6Network")
         THEN "ValidationError"
    ELSE "accepted"

\* Check.validate_nexthop: addresses and networks are modelled by their
\* class; a ValueError raised by a validator is reported by pydantic as a
\* ValidationError
validate_nexthop(nexthop, prefixes) ==
    IF nexthop = "self" THEN "accepted"
    ELSE IF nexthop = "IPv4Address" /\ ~all_isinstance(prefixes, "IPv4Network")
         THEN "ValidationError"
    ELSE IF nexthop = "IPv6Address" /\ ~all_isinstance(prefixes, "IPv6Network")
         THEN "ValidationError"
    ELSE "accepted"

\* Check(...) is constructed from the candidate
Validate ==
    /\ verdict = "none"
    /\ verdict' = validate_nexthop(candidate.nexthop, candidate.prefixes)
    /\ UNCHANGED <<candidate, nonvalidator>>

\* a candidate whose fields have passed their own type validation
ValidatorInit ==
    /\ candidate \in [nexthop : {"self", "IPv4Address", "IPv6Address"},
                      prefixes : SeqsUpTo({"IPv4Network", "IPv6Network"}, MaxPrefixes)]
    /\ verdict = "none"

\* check validation is not part of the other specifications
ValidatorIdle ==
    /\ candidate = [nexthop |-> "self", prefixes |-> <<>>]
    /\ verdict = "none"

\* ======================================================================
\* The routes of one check in the routing daemon: the workers of the check
\* write their commands to the standard output they share with the master
\* (worker.py, exacheck.py)
\* ======================================================================

\* Worker.__init__, lines 60-63
StartupState == CheckState("startup", FALSE, NoResult, None, None, None, None)

\* the last command of the lines written, or what the daemon held before
LastCommand(o, before) == IF o = <<>> THEN before ELSE o[Len(o)].command

\* one iteration of the loop of the live worker: the probe succeeds exactly
\* when the service is healthy; timestamps are not followed (always 1)
RouteTick ==
    /\ cur.status = "running"
    /\ LET r == IF service = "ok"
                THEN success(rcheck, cur.cs, "success", IO(<<>>, <<>>), 1)
                ELSE failure(rcheck, cur.cs, "failure", IO(<<>>, <<>>), 1)
       IN  /\ cur' = [cur EXCEPT !.cs = r.cs]
           /\ rib' = LastCommand(r.io.out, rib)
    /\ beat' = ~beat
    /\ UNCHANGED <<rcheck, service, prev, late, kills, nonroute>>

\* the probed service recovers or fails
ServiceChanges ==
    /\ service' = IF service = "ok" THEN "failing" ELSE "ok"
    /\ UNCHANGED <<rcheck, cur, prev, rib, late, kills, beat, nonroute>>

\* the live worker dies without running its signal handler (SIGKILL, a
\* crash): job[1].is_alive() becomes false and nothing is written
WorkerCrashes ==
    /\ cur.status = "running"
    /\ kills < MaxKills
    /\ cur' = [cur EXCEPT !.status = "dead"]
    /\ kills' = kills + 1
    /\ UNCHANGED <<rcheck, service, prev, rib, late, beat, nonroute>>

\* ExaCheck.run, lines 163-188: the dead worker is replaced by a new
\* process, which starts from Worker.__init__
Respawn ==
    /\ cur.status = "dead"
    /\ cur' = [status |-> "running", cs |-> StartupState]
    /\ UNCHANGED <<rcheck, service, prev, rib, late, kills, beat, nonroute>>

\* ExaCheck._restart_worker: _stop_worker sends SIGTERM with terminate()
\* and does not wait for the process; _start_worker starts the replacement
Restart ==
    /\ cur.status = "running"
    /\ prev.status # "terminating"
    /\ prev' = [status |-> "terminating", cs |-> cur.cs]
    /\ cur' = [status |-> "running", cs |-> StartupState]
    /\ late' = FALSE
    /\ UNCHANGED <<rcheck, service, rib, kills, beat, nonroute>>

\* Worker.cleanup in the terminated worker, whenever its handler gets to run
OldCleanup ==
    /\ prev.status = "terminating"
    /\ prev' = [prev EXCEPT !.status = "exited"]
    /\ rib' = IF prev.cs.advertised
              THEN LastCommand(AnnouncerWithdraw(<<>>, TRUE), rib)
              ELSE rib
    /\ late' = (prev.cs.advertised /\ cur.cs.advertised)
    /\ UNCHANGED <<rcheck, service, cur, kills, beat, nonroute>>

\* the master has started the worker of the check; nothing is announced
RouteInit ==
    /\ rcheck \in [rise : 0..MaxThreshold, fall : 0..MaxThreshold, disable : {FALSE}]
    /\ service \in {"ok", "failing"}
    /\ cur = [status |-> "running", cs |-> StartupState]
    /\ prev = [status |-> "none", cs |-> StartupState]
    /\ rib = "none"
    /\ late = FALSE
    /\ kills = 0
    /\ beat = FALSE

\* the routing daemon is not part of the other specifications
RouteIdle ==
    /\ rcheck = [rise |-> 0, fall |-> 0, disable |-> FALSE]
    /\ service = "ok"
    /\ cur = [status |-> "running", cs |-> StartupState]
    /\ prev = [status |-> "none", cs |-> StartupState]
    /\ rib = "none"
    /\ late = FALSE
    /\ kills = 0
    /\ beat = FALSE

\* ======================================================================
\* Remote probe methods: the loop over the resolved addresses
\* (methods/_remote.py), called under the deadline of the executor
\* ======================================================================

\* Remote._check, lines 140-183, for the result of one address: the result
\* to return from check(), or "None" to go on with the next address
_check(ok) ==
    IF all_valid /\ ~ok THEN "failure"
    ELSE IF ~all_valid /\ ok THEN "success"
    ELSE "None"

\* the result of the current address is known: check() returns it or the
\* loop goes on
AfterCheckOne(ok, armed) ==
    /\ checked' = Append(checked, [ok |-> ok, armed |-> armed])
    /\ IF _check(ok) # "None"
       THEN /\ mresult' = _check(ok)
            /\ mpc' = "returned"
       ELSE /\ mresult' = mresult
            /\ mpc' = "between"
    /\ UNCHANGED <<all_valid, ips, addr>>

\* check_one(addr) returns a CheckResult, or raises and the `except
\* Exception` of _check makes a failure of it
CheckOneEnds ==
    /\ mpc = "check_one"
    /\ \E ok \in BOOLEAN : AfterCheckOne(ok, fired_at = 0)
    /\ UNCHANGED <<fired_at, nonremote>>

\* Remote.check, lines 83-112: the next address, or the result after the
\* last one
NextAddress ==
    /\ mpc = "between"
    /\ IF addr < ips
       THEN /\ addr' = addr + 1
            /\ mpc' = "check_one"
            /\ mresult' = mresult
       ELSE /\ addr' = addr
            /\ mpc' = "returned"
            /\ mresult' = IF all_valid THEN "success" ELSE "failure"
    /\ UNCHANGED <<all_valid, ips, fired_at, checked, nonremote>>

\* SIGALRM is delivered while check_one(addr) runs: timeout_handler raises
\* CheckTimeout there, and the `except Exception` of _check (line 127)
\* catches it as the failure of this address
AlarmInCheckOne ==
    /\ mpc = "check_one"
    /\ fired_at = 0
    /\ fired_at' = addr
    /\ AfterCheckOne(FALSE, TRUE)
    /\ UNCHANGED nonremote

\* SIGALRM is delivered between two addresses, outside the try of _check:
\* CheckTimeout leaves check() and _run_check makes a failure result of it
AlarmBetween ==
    /\ mpc = "between"
    /\ fired_at = 0
    /\ fired_at' = addr
    /\ mresult' = "failure"
    /\ mpc' = "returned"
    /\ UNCHANGED <<all_valid, ips, addr, checked, nonremote>>

\* check() has resolved the host and enters check_one for the first address
RemoteInit ==
    /\ all_valid \in BOOLEAN
    /\ ips \in 1..MaxAddrs
    /\ addr = 1
    /\ mpc = "check_one"
    /\ fired_at = 0
    /\ mresult = "none"
    /\ checked = <<>>

\* the remote probe is not part of the other specifications
RemoteIdle ==
    /\ all_valid = FALSE
    /\ ips = 1
    /\ addr = 1
    /\ mpc = "check_one"
    /\ fired_at = 0
    /\ mresult = "none"
    /\ checked = <<>>

\* ======================================================================
\* Sleeper (sleeper.py)
\* ======================================================================

\* one second, in ticks
Second == PerSecond

\* a _calculate that returns the remainder without the one-second floor
_calculate_nofloor(finish) ==
    LET elapsed == finish - _start
    IN  IF elapsed > _interval
        THEN Second
        ELSE _interval - elapsed

\* Sleeper._calculate
_calculate(finish) ==
    LET elapsed == finish - _start
    IN  IF elapsed > _interval
        THEN Second
        ELSE LET remaining == _interval - elapsed
             IN  IF remaining < Second THEN Second ELSE remaining

\* Sleeper.finish: monotonic() never runs backwards
SleeperFinish ==
    /\ slpc = "started"
    /\ \E finish \in _start..(_start + MaxElapsed * PerSecond) :
          /\ finish_time' = finish
          /\ _sleep_time' = _calculate(finish)
    /\ slpc' = "finished"
    /\ UNCHANGED <<_interval, _start>>
    /\ UNCHANGED nonsleeper

\* Sleeper.sleep
SleeperSleep ==
    /\ slpc = "finished"
    /\ slpc' = "slept"
    /\ UNCHANGED <<_interval, _start, _sleep_time, finish_time>>
    /\ UNCHANGED nonsleeper

\* Sleeper.__init__: the interval is a PositiveInt or PositiveFloat
SleeperInit ==
    /\ _interval \in 1..(MaxInterval * PerSecond)
    /\ _start \in 0..MaxStart
    /\ _sleep_time = 0
    /\ finish_time = 0
    /\ slpc = "started"

\* the sleeper is not part of the other specifications
SleeperIdle ==
    /\ _interval = Second
    /\ _start = 0
    /\ _sleep_time = 0
    /\ finish_time = 0
    /\ slpc = "started"

\* ======================================================================
\* Check executor (checkexecutor.py)
\* ======================================================================

\* CheckResult(success, message, error); the other fields are not modelled
CheckResult(ok, message, error) ==
    [success |-> ok, message |-> message, error |-> error]

\* no result yet
NoCheckResult == CheckResult(FALSE, "none", "none")

\* the result a probe method builds itself when it returns
ProbeResult(ok) == CheckResult(ok, "probe", "none")

\* _execute, lines 106-111: message = f"{exc}" of the CheckTimeout, that is
\* "The check timed out after N seconds"
TimeoutResult == CheckResult(FALSE, "The check timed out after N seconds", "none")

\* _run_check, lines 133-155: the result built from the exception exc that
\* left method.check(); CheckTimeout is an Exception and not a
\* DNSResolutionError, so it takes the second handler
ExceptionResult(exc) ==
    IF exc = "DNSResolutionError"
    THEN CheckResult(FALSE, "Could not resolve hostname into an IP address",
                     "Hostname could not be resolved")
    ELSE CheckResult(FALSE, "Unexpected exception while running health check",
                     IF exc = "CheckTimeout"
                     THEN "Exception was raised: The check timed out after N seconds"
                     ELSE "Exception was raised: error")

\* the ways method.check() can end by itself
ProbeEnds == {"success", "failure", "DNSResolutionError", "Exception"}

\* the positions of the worker inside execute():
\*   "armed"     after signal.alarm(timeout), line 101, before the try of line 104
\*   "probe"     in method.check(), inside the try of _run_check, line 132
\*   "handler"   in an except block of _run_check, lines 134-155
\*   "ran"       in _run_check after its try statement, up to the assignment
\*               of line 105 (inside the try of _execute)
\*   "after_try" after the try statement of _execute, before signal.alarm(0)
Inside == {"armed", "probe", "handler", "ran", "after_try"}

\* the SIGALRM is due: Python runs timeout_handler before the next bytecode
Due == alarm # 0 /\ clock >= alarm

\* Worker.run calls executor.execute(): _execute registers the handler and
\* sets the alarm (signal.alarm replaces an alarm that is still pending)
ExecStart ==
    /\ epc = "outside" /\ ~Due
    /\ calls < MaxCalls
    /\ alarm' = clock + timeout
    /\ started' = clock
    /\ epc' = "armed"
    /\ probed' = "none"
    /\ fired' = "none"
    /\ eresult' = NoCheckResult
    /\ outcome' = "running"
    /\ calls' = calls + 1
    /\ UNCHANGED <<timeout, clock>>
    /\ UNCHANGED nonexec

\* _execute enters its try and _run_check calls method.check()
ExecEnterProbe ==
    /\ epc = "armed" /\ ~Due
    /\ epc' = "probe"
    /\ UNCHANGED <<timeout, clock, alarm, probed, fired, started, eresult, outcome, calls>>
    /\ UNCHANGED nonexec

\* method.check() returns a CheckResult or raises
ExecProbeEnds ==
    /\ epc = "probe" /\ ~Due
    /\ \E e \in ProbeEnds :
          /\ probed' = e
          /\ IF e \in {"success", "failure"}
             THEN /\ eresult' = ProbeResult(e = "success")
                  /\ epc' = "ran"
             ELSE /\ eresult' = eresult
                  /\ epc' = "handler"
    /\ UNCHANGED <<timeout, clock, alarm, fired, started, outcome, calls>>
    /\ UNCHANGED nonexec

\* an except block of _run_check builds the failure result and logs
ExecHandler ==
    /\ epc = "handler" /\ ~Due
    /\ eresult' = ExceptionResult(probed)
    /\ epc' = "ran"
    /\ UNCHANGED <<timeout, clock, alarm, probed, fired, started, outcome, calls>>
    /\ UNCHANGED nonexec

\* _run_check returns and _execute leaves its try statement
ExecLeaveTry ==
    /\ epc = "ran" /\ ~Due
    /\ epc' = "after_try"
    /\ UNCHANGED <<timeout, clock, alarm, probed, fired, started, eresult, outcome, calls>>
    /\ UNCHANGED nonexec

\* an _execute that returns without cancelling the alarm
ExecDisarm_keeps_alarm ==
    /\ epc = "after_try" /\ ~Due
    /\ epc' = "outside"
    /\ outcome' = "returned"
    /\ UNCHANGED <<timeout, clock, alarm, probed, fired, started, eresult, calls>>
    /\ UNCHANGED nonexec

\* signal.alarm(0), line 118, and the return of the result to Worker.run
ExecDisarm ==
    /\ epc = "after_try" /\ ~Due
    /\ alarm' = 0
    /\ epc' = "outside"
    /\ outcome' = "returned"
    /\ UNCHANGED <<timeout, clock, probed, fired, started, eresult, calls>>
    /\ UNCHANGED nonexec

\* SIGALRM while method.check() runs: timeout_handler raises CheckTimeout
\* inside the probe.  Either it leaves method.check() and is caught by the
\* `except Exception` of _run_check (line 144), or an `except Exception`
\* of the probe method itself catches it (methods/_remote.py, tcp.py,
\* shell.py) and the probe carries on without a deadline.
AlarmInProbe ==
    /\ eresult' = eresult
    /\ outcome' = outcome
    /\ \/ probed' = "CheckTimeout" /\ epc' = "handler"
       \/ probed' = "swallowed" /\ epc' = "probe"

\* the pending SIGALRM is delivered: timeout_handler raises CheckTimeout at
\* whatever position the worker is in
AlarmFires ==
    /\ Due
    /\ alarm' = 0
    /\ fired' = epc
    /\ CASE epc = "probe" -> AlarmInProbe
         [] epc \in {"handler", "ran"} ->
                \* raised inside the try of _execute: `except CheckTimeout`
                /\ eresult' = TimeoutResult
                /\ epc' = "after_try"
                /\ UNCHANGED <<probed, outcome>>
         [] epc \in {"armed", "after_try"} ->
                \* raised in _execute outside its try: it leaves execute()
                /\ outcome' = "raised"
                /\ epc' = "dead"
                /\ UNCHANGED <<probed, eresult>>
         [] OTHER ->
                \* raised in the worker loop, outside execute()
                /\ outcome' = "misfire"
                /\ epc' = "dead"
                /\ UNCHANGED <<probed, eresult>>
    /\ UNCHANGED <<timeout, clock, started, calls>>
    /\ UNCHANGED nonexec

\* environment: a second passes, wherever the worker is
TimePasses ==
    /\ ~Due
    /\ clock < MaxClock
    /\ clock' = clock + 1
    /\ UNCHANGED <<timeout, alarm, epc, probed, fired, started, eresult, outcome, calls>>
    /\ UNCHANGED nonexec

\* CheckExecutor.__init__: timeout is a PositiveInt
ExecInit ==
    /\ timeout \in 1..MaxTimeout
    /\ clock = 0
    /\ alarm = 0
    /\ epc = "outside"
    /\ probed = "none"
    /\ fired = "none"
    /\ started = 0
    /\ eresult = NoCheckResult
    /\ outcome = "idle"
    /\ calls = 0

\* the executor is not part of the other specifications
ExecIdle ==
    /\ timeout = 1
    /\ clock = 0
    /\ alarm = 0
    /\ epc = "outside"
    /\ probed = "none"
    /\ fired = "none"
    /\ started = 0
    /\ eresult = NoCheckResult
    /\ outcome = "idle"
    /\ calls = 0

\* ======================================================================
\* Master process
\* ======================================================================

Names == {"A", "B", "C"}

\* a Check value as far as the master looks at it: its name and the rest of
\* its fields (cfg), compared by value
Checks == [name : Names, cfg : 1..NumCfg]

\* the None returned by Settings.get_check_name
NoCheck == [name |-> "", cfg |-> 0]

\* the names of a list of checks / of registry entries, in order
NamesOf(checks) == [k \in 1..Len(checks) |-> checks[k].name]
JobNames(js) == [k \in 1..Len(js) |-> js[k].check.name]

Range(s) == {s[k] : k \in 1..Len(s)}
NoDup(s) == \A a, b \in 1..Len(s) : a # b => s[a] # s[b]

\* check lists with unique names
CheckLists ==
    {cl \in UNION {[1..n -> Checks] : n \in 0..MaxChecks} : NoDup(NamesOf(cl))}

\* the notification targets are the same in every configuration explored
SettingsValues ==
    [checks : CheckLists, live_reload : BOOLEAN, notifications : {1}]

\* the configurations the master starts from: every check in its first
\* configuration (cfg is only compared for equality)
InitialSettings ==
    {stg \in SettingsValues : \A k \in 1..Len(stg.checks) : stg.checks[k].cfg = 1}

EmptySettings == [checks |-> <<>>, live_reload |-> FALSE, notifications |-> 1]

\* what the configuration file can hold: a valid configuration, text that
\* does not parse, or a document that fails validation
FileContents ==
    [kind : {"ok"}, settings : SettingsValues]
        \cup [kind : {"unparsable", "invalid"}, settings : {EmptySettings}]

\* Settings.get_check_name
get_check_name(stg, name) ==
    IF \E k \in 1..Len(stg.checks) : stg.checks[k].name = name
    THEN stg.checks[CHOOSE k \in 1..Len(stg.checks) :
                        /\ stg.checks[k].name = name
                        /\ \A m \in 1..(k - 1) : stg.checks[m].name # name]
    ELSE NoCheck

\* list.index(x) / list.remove(x): the first element equal to x
IndexOf(s, x) ==
    CHOOSE k \in 1..Len(s) : s[k] = x /\ \A m \in 1..(k - 1) : s[m] # x

RemoveAt(s, k) == SubSeq(s, 1, k - 1) \o SubSeq(s, k + 1, Len(s))

Note(event, kind, name) == [event |-> event, kind |-> kind, name |-> name]

\* the master's mutable state while a handler runs, with the record of what
\* the handler did
SupState(js, al, np, nf) ==
    [jobs |-> js, alive |-> al, next_pid |-> np, notifier |-> nf, error |-> FALSE,
     notes |-> <<>>, respawned |-> <<>>, created |-> <<>>, terminated |-> <<>>,
     started |-> <<>>, stopped |-> <<>>, restarted |-> <<>>]

\* workers that are not daemonic (they would survive the master's exit)
daemon_false == FALSE

\* _create_process: Process(..., daemon=True)
daemon == TRUE

\* the worker processes still running once the master process has exited:
\* the interpreter terminates the daemonic children of an exiting process
AliveAfterExit(al) == IF daemon THEN {} ELSE al

\* _create_process followed by worker.start(): a fresh live process
CreateAndStart(st) ==
    [st EXCEPT !.alive = @ \cup {st.next_pid},
               !.next_pid = @ + 1,
               !.created = Append(@, st.next_pid)]

\* ExaCheck._start_processes
RECURSIVE StartEach(_, _)
StartEach(checks, st) ==
    IF checks = <<>> THEN st
    ELSE LET worker == st.next_pid
             st1 == CreateAndStart(st)
         IN  StartEach(Tail(checks),
                       [st1 EXCEPT !.jobs = Append(@, [check |-> Head(checks),
                                                      proc |-> worker])])

_start_processes(checks, st) == StartEach(checks, [st EXCEPT !.jobs = <<>>])

\* ExaCheck._start_worker
_start_worker(st, chk) ==
    LET worker == st.next_pid
        st1 == CreateAndStart(st)
    IN  [st1 EXCEPT !.jobs = Append(@, [check |-> chk, proc |-> worker])]

\* _stop_worker that terminates the process and leaves it in the registry
_stop_worker_keeps_entry(st, chk) ==
    IF ~\E k \in 1..Len(st.jobs) : st.jobs[k].check.name = chk.name
    THEN [st EXCEPT !.error = TRUE]
    ELSE LET worker == st.jobs[CHOOSE k \in 1..Len(st.jobs) :
                                  /\ st.jobs[k].check.name = chk.name
                                  /\ \A m \in 1..(k - 1) :
                                        st.jobs[m].check.name # chk.name]
         IN  [st EXCEPT !.alive = @ \ {worker.proc},
                        !.terminated = Append(@, worker.proc)]

\* ExaCheck._stop_worker; the IndexError of an unregistered name leaves run()
_stop_worker(st, chk) ==
    IF ~\E k \in 1..Len(st.jobs) : st.jobs[k].check.name = chk.name
    THEN [st EXCEPT !.error = TRUE]
    ELSE LET worker == st.jobs[CHOOSE k \in 1..Len(st.jobs) :
                                  /\ st.jobs[k].check.name = chk.name
                                  /\ \A m \in 1..(k - 1) :
                                        st.jobs[m].check.name # chk.name]
         IN  [st EXCEPT !.alive = @ \ {worker.proc},
                        !.terminated = Append(@, worker.proc),
                        !.jobs = RemoveAt(@, IndexOf(@, worker))]

\* ExaCheck._terminate_worker
_terminate_worker(st, chk) ==
    LET st1 == _stop_worker(st, chk)
    IN  IF st1.error THEN st1
        ELSE [st1 EXCEPT !.stopped = Append(@, chk.name),
                         !.notes = Append(@, Note("info", "Worker Removed", chk.name))]

\* ExaCheck._restart_worker
_restart_worker(st, chk) ==
    LET st1 == _stop_worker(st, chk)
    IN  IF st1.error THEN st1
        ELSE [_start_worker(st1, chk)
                 EXCEPT !.restarted = Append(@, chk.name),
                        !.notes = Append(@, Note("info", "Worker Restarted", chk.name))]

\* _reload_configuration, lines 393-398: the checks that are no longer defined
RECURSIVE TerminateRemoved(_, _, _)
TerminateRemoved(checks, new, st) ==
    IF checks = <<>> \/ st.error THEN st
    ELSE TerminateRemoved(Tail(checks), new,
            IF get_check_name(new, Head(checks).name) = NoCheck
            THEN _terminate_worker(st, Head(checks))
            ELSE st)

\* the second loop restarting every check that is in both configurations
RECURSIVE StartOrRestart_always(_, _, _, _)
StartOrRestart_always(checks, current, new, st) ==
    IF checks = <<>> \/ st.error THEN st
    ELSE LET chk == Head(checks)
         IN  StartOrRestart_always(Tail(checks), current, new,
                IF get_check_name(current, chk.name) = NoCheck
                THEN [_start_worker(st, chk)
                         EXCEPT !.started = Append(@, chk.name),
                                !.notes = Append(@, Note("info", "Worker Started",
                                                         chk.name))]
                ELSE _restart_worker(st, chk))

\* _reload_configuration, lines 400-420: new and changed checks
RECURSIVE StartOrRestart(_, _, _, _)
StartOrRestart(checks, current, new, st) ==
    IF checks = <<>> \/ st.error THEN st
    ELSE LET chk == Head(checks)
         IN  StartOrRestart(Tail(checks), current, new,
                IF get_check_name(current, chk.name) = NoCheck
                THEN [_start_worker(st, chk)
                         EXCEPT !.started = Append(@, chk.name),
                                !.notes = Append(@, Note("info", "Worker Started",
                                                         chk.name))]
                ELSE IF get_check_name(new, chk.name)
                          # get_check_name(current, chk.name)
                THEN _restart_worker(st, chk)
                ELSE st)

\* _reload_configuration after a successful Configuration.reload()
Reconcile(current, new, st) ==
    LET st0 == IF current.notifications # new.notifications
               THEN [st EXCEPT !.notifier = new.notifications]
               ELSE st
        st1 == TerminateRemoved(current.checks, new, st0)
    IN  StartOrRestart(new.checks, current, new, st1)

\* a respawn that appends the replacement instead of replacing the entry
RECURSIVE RespawnFrom_appends(_, _)
RespawnFrom_appends(i, st) ==
    IF i > Len(st.jobs) THEN st
    ELSE LET job == st.jobs[i]
         IN  IF job.proc \in st.alive
             THEN RespawnFrom_appends(i + 1, st)
             ELSE LET worker == st.next_pid
                      st1 == CreateAndStart(st)
                  IN  RespawnFrom_appends(i + 1,
                        [st1 EXCEPT
                           !.jobs = Append(RemoveAt(@, i),
                                           [check |-> job.check, proc |-> worker]),
                           !.respawned = Append(@, job.check.name),
                           !.notes = Append(@, Note("error", "Worker Failure",
                                                    job.check.name))])

\* run(), lines 163-195: respawn every worker that is not alive
RECURSIVE RespawnFrom(_, _)
RespawnFrom(i, st) ==
    IF i > Len(st.jobs) THEN st
    ELSE LET job == st.jobs[i]
         IN  IF job.proc \in st.alive
             THEN RespawnFrom(i + 1, st)
             ELSE LET worker == st.next_pid
                      st1 == CreateAndStart(st)
                  IN  RespawnFrom(i + 1,
                        [st1 EXCEPT
                           !.jobs[IndexOf(st.jobs, job)] =
                               [check |-> job.check, proc |-> worker],
                           !.respawned = Append(@, job.check.name),
                           !.notes = Append(@, Note("error", "Worker Failure",
                                                    job.check.name))])

\* Configuration.is_modified
is_modified == file_mtime # mtime

\* a reload that accepts whatever the file holds
reload_ok_always == TRUE

\* Configuration.reload: TRUE when the file was loaded into the settings
reload_ok == file.kind = "ok"

\* the record kept of a monitoring tick
TickRecord(attempted, reloaded, old, oldjobs, st) ==
    [attempted |-> attempted, reloaded |-> reloaded, old |-> old,
     oldjobs |-> oldjobs, notes |-> st.notes, respawned |-> st.respawned,
     created |-> st.created, terminated |-> st.terminated,
     started |-> st.started, stopped |-> st.stopped, restarted |-> st.restarted]

Commit(st) ==
    /\ jobs' = st.jobs
    /\ alive' = st.alive
    /\ next_pid' = st.next_pid
    /\ notifier' = st.notifier
    /\ spc' = IF st.error THEN "crashed" ELSE "loop"

\* ExaCheck.run, lines 116-117: the initial fan-out
StartProcesses ==
    /\ spc = "init"
    /\ LET st == _start_processes(settings.checks,
                                  SupState(jobs, alive, next_pid, notifier))
       IN  /\ st.next_pid <= MaxPid + 1
           /\ Commit(st)
           /\ last' = TickRecord(FALSE, FALSE, settings, jobs, st)
    /\ UNCHANGED <<settings, mtime, file, file_mtime>>
    /\ UNCHANGED nonsup

\* Configuration.is_modified: stat() of the configuration file raises when
\* the file is missing; nothing in is_modified or ExaCheck.run catches it
stat_raises == file.kind = "missing"

\* one iteration of the monitoring loop of ExaCheck.run, lines 146-236
MonitorTick ==
    /\ spc = "loop"
    /\ LET st1 == RespawnFrom(1, SupState(jobs, alive, next_pid, notifier))
           crash == settings.live_reload /\ stat_raises
           attempted == settings.live_reload /\ ~stat_raises /\ is_modified
           reloaded == attempted /\ reload_ok
           new == IF reloaded THEN file.settings ELSE settings
           st2 == IF reloaded THEN Reconcile(settings, new, st1) ELSE st1
       IN  /\ st2.next_pid <= MaxPid + 1
           /\ IF crash
              THEN /\ jobs' = st1.jobs
                   /\ alive' = AliveAfterExit(st1.alive)
                   /\ next_pid' = st1.next_pid
                   /\ notifier' = st1.notifier
                   /\ spc' = "crashed"
              ELSE Commit(st2)
           /\ settings' = new
           /\ mtime' = IF attempted THEN file_mtime ELSE mtime
           /\ last' = TickRecord(attempted, reloaded, settings, st1.jobs, st2)
    /\ UNCHANGED <<file, file_mtime>>
    /\ UNCHANGED nonsup

\* environment: a worker process dies
WorkerDies ==
    /\ spc = "loop"
    /\ \E p \in alive : alive' = alive \ {p}
    /\ UNCHANGED <<settings, mtime, file, file_mtime, jobs, next_pid, notifier, spc, last>>
    /\ UNCHANGED nonsup

\* environment: the configuration file is rewritten
FileChange ==
    /\ spc = "loop"
    /\ file_mtime < MaxMtime
    /\ \E f \in FileContents :
          /\ file' = f
          /\ file_mtime' = file_mtime + 1
    /\ UNCHANGED <<settings, mtime, jobs, alive, next_pid, notifier, spc, last>>
    /\ UNCHANGED nonsup

NoTick == TickRecord(FALSE, FALSE, EmptySettings, <<>>, SupState(<<>>, {}, 1, 1))

\* ExaCheck.__init__: the configuration file was loaded and is valid
SupInit ==
    /\ settings \in InitialSettings
    /\ file = [kind |-> "ok", settings |-> settings]
    /\ file_mtime = 0
    /\ mtime = 0
    /\ jobs = <<>>
    /\ alive = {}
    /\ next_pid = 1
    /\ notifier = settings.notifications
    /\ spc = "init"
    /\ last = NoTick

\* the worker is not part of SpecSup: its variables stay at rest
WorkerIdle ==
    /\ check = [rise |-> 3, fall |-> 3, disable |-> FALSE]
    /\ check_state = CheckState("startup", FALSE, NoResult, None, None, None, None)
    /\ out = <<>>
    /\ notes = <<>>
    /\ now = 1
    /\ wpc = "running"
    /\ hist = <<>>

InitSup == SupInit /\ WorkerIdle /\ ExecIdle /\ SleeperIdle /\ AnnouncerIdle /\ ValidatorIdle /\ RouteIdle /\ RemoteIdle

NextSup == StartProcesses \/ MonitorTick \/ WorkerDies \/ FileChange

SpecSup == InitSup /\ [][NextSup]_vars

\* environment: the configuration file is removed (FileChange creates it
\* again)
FileRemoved ==
    /\ spc = "loop"
    /\ file.kind # "missing"
    /\ file' = [kind |-> "missing", settings |-> EmptySettings]
    /\ UNCHANGED <<settings, mtime, file_mtime, jobs, alive, next_pid, notifier, spc, last>>
    /\ UNCHANGED nonsup

\* the record of a step that only sent the notifications ns
NotesOnly(ns) ==
    [TickRecord(FALSE, FALSE, settings, jobs, SupState(jobs, alive, next_pid, notifier))
        EXCEPT !.notes = ns]

\* ExaCheck.cleanup, the SIGINT / SIGTERM handler installed by run() at
\* lines 126-127: one notification, then sys.exit(0)
SupCleanup ==
    /\ last' = NotesOnly(<<Note("info", "ExaCheck Process Terminated", "")>>)
    /\ alive' = AliveAfterExit(alive)
    /\ spc' = "exited"

\* SIGINT / SIGTERM delivered to the master in its monitoring loop
SupSignal ==
    /\ spc = "loop"
    /\ SupCleanup
    /\ UNCHANGED <<settings, mtime, file, file_mtime, jobs, next_pid, notifier>>
    /\ UNCHANGED nonsup

\* the master with a configuration file that can disappear and with
\* termination signals
NextSupEnv == NextSup \/ FileRemoved \/ SupSignal

SpecSupEnv == InitSup /\ [][NextSupEnv]_vars

\* the master is not part of Spec: its variables stay at rest
SupIdle ==
    /\ settings = EmptySettings
    /\ mtime = 0
    /\ file = [kind |-> "ok", settings |-> EmptySettings]
    /\ file_mtime = 0
    /\ jobs = <<>>
    /\ alive = {}
    /\ next_pid = 1
    /\ notifier = 1
    /\ spc = "init"
    /\ last = NoTick

Init == WorkerInit /\ SupIdle /\ ExecIdle /\ SleeperIdle /\ AnnouncerIdle /\ ValidatorIdle /\ RouteIdle /\ RemoteIdle

Next == WorkerTick \/ WorkerSignal

Spec == Init /\ [][Next]_vars

\* one worker whose signal handler can also run inside the success handler
NextWorkerSig ==
    QuietTick \/ SuccessAnnounces \/ SuccessReplaces \/ WorkerSignal \/ SignalInSuccess

SpecWorkerSig == Init /\ [][NextWorkerSig]_vars

\* one worker's calls of execute(), with time
InitExec == ExecInit /\ WorkerIdle /\ SupIdle /\ SleeperIdle /\ AnnouncerIdle /\ ValidatorIdle /\ RouteIdle /\ RemoteIdle

NextExec ==
    \/ ExecStart \/ ExecEnterProbe \/ ExecProbeEnds \/ ExecHandler
    \/ ExecLeaveTry \/ ExecDisarm \/ AlarmFires \/ TimePasses

SpecExec == InitExec /\ [][NextExec]_vars

\* one Sleeper
InitSleeper == SleeperInit /\ WorkerIdle /\ SupIdle /\ ExecIdle /\ AnnouncerIdle /\ ValidatorIdle /\ RouteIdle /\ RemoteIdle

NextSleeper == SleeperFinish \/ SleeperSleep

SpecSleeper == InitSleeper /\ [][NextSleeper]_vars

\* one Announcer
InitAnnouncer == AnnouncerInit /\ WorkerIdle /\ SupIdle /\ ExecIdle /\ SleeperIdle /\ ValidatorIdle /\ RouteIdle /\ RemoteIdle

NextAnnouncer == AnnouncerNew \/ AnnouncerSend

SpecAnnouncer == InitAnnouncer /\ [][NextAnnouncer]_vars

\* one Announcer, over the optional attributes of the check
InitRoutes == RoutesInit /\ WorkerIdle /\ SupIdle /\ ExecIdle /\ SleeperIdle /\ ValidatorIdle /\ RouteIdle /\ RemoteIdle

SpecRoutes == InitRoutes /\ [][NextAnnouncer]_vars

\* validation of one candidate check
InitValidator ==
    ValidatorInit /\ WorkerIdle /\ SupIdle /\ ExecIdle /\ SleeperIdle /\ AnnouncerIdle
    /\ RouteIdle /\ RemoteIdle

SpecValidator == InitValidator /\ [][Validate]_vars

\* the worker of one check across restarts by a reload
InitRoute ==
    RouteInit /\ WorkerIdle /\ SupIdle /\ ExecIdle /\ SleeperIdle /\ AnnouncerIdle
    /\ ValidatorIdle /\ RemoteIdle

NextRestart == RouteTick \/ ServiceChanges \/ Restart \/ OldCleanup

SpecRestart == InitRoute /\ [][NextRestart]_vars

\* the worker of one check across crashes and respawns; the worker loop and
\* the monitoring loop of the master keep running
NextRespawn == RouteTick \/ ServiceChanges \/ WorkerCrashes \/ Respawn

SpecRespawn ==
    InitRoute /\ [][NextRespawn]_vars /\ WF_vars(RouteTick) /\ WF_vars(Respawn)

\* one call of Remote.check under the deadline
InitRemote ==
    RemoteInit /\ WorkerIdle /\ SupIdle /\ ExecIdle /\ SleeperIdle /\ AnnouncerIdle
    /\ ValidatorIdle /\ RouteIdle

NextRemote == CheckOneEnds \/ NextAddress \/ AlarmInCheckOne \/ AlarmBetween

SpecRemote == InitRemote /\ [][NextRemote]_vars

\* ======================================================================
\* Properties of the worker (checked under Spec)
\* ======================================================================

\* number of entries of the command sequence s that carry command c
RECURSIVE CountCmd(_, _)
CountCmd(s, c) ==
    IF s = <<>> THEN 0
    ELSE (IF Head(s).command = c THEN 1 ELSE 0) + CountCmd(Tail(s), c)

\* number of notifications of s for event e
RECURSIVE CountEvt(_, _)
CountEvt(s, e) ==
    IF s = <<>> THEN 0
    ELSE (IF Head(s).event = e THEN 1 ELSE 0) + CountEvt(Tail(s), e)

\* iterations i .. i+k-1 all returned r
RunOf(i, k, r) == \A j \in i..(i + k - 1) : hist[j].result = r

\* the iteration announced: one announce command, advertised afterwards
Announced(i) ==
    /\ hist[i].after.advertised
    /\ CountCmd(hist[i].cmds, "announce") = 1

\* the iteration left the route unannounced and wrote no announce
NotAnnounced(i) ==
    /\ ~hist[i].after.advertised
    /\ CountCmd(hist[i].cmds, "announce") = 0

Withdrawn(i) ==
    /\ ~hist[i].after.advertised
    /\ CountCmd(hist[i].cmds, "withdraw") = 1

\* C1: from a state that is not advertised and has no rise counter, the
\* k-th consecutive success leaves the route unannounced while k < rise and
\* announces it when k = rise.
C1_RiseExact ==
    \A i \in 1..Len(hist) : \A k \in 1..(Len(hist) - i + 1) :
        (/\ ~hist[i].before.advertised
         /\ hist[i].before.rise = None
         /\ RunOf(i, k, "success"))
        => /\ (k < check.rise => NotAnnounced(i + k - 1))
           /\ (k = check.rise => Announced(i + k - 1))

\* C2: from state up (advertised, no fall counter), the k-th consecutive
\* failure leaves the state falling, advertised and without a withdraw
\* while k < fall, and withdraws when k = fall.
C2_FallExact ==
    \A i \in 1..Len(hist) : \A k \in 1..(Len(hist) - i + 1) :
        (/\ hist[i].before.state = "up"
         /\ hist[i].before.advertised
         /\ hist[i].before.fall = None
         /\ RunOf(i, k, "failure"))
        => /\ (k < check.fall =>
                 /\ hist[i + k - 1].after.state = "falling"
                 /\ hist[i + k - 1].after.advertised
                 /\ CountCmd(hist[i + k - 1].cmds, "withdraw") = 0)
           /\ (k = check.fall => Withdrawn(i + k - 1))

\* C3: with rise <= 1 the first success from a not advertised state
\* announces; with fall <= 1 the first failure from state up withdraws.
C3_NoGraceWindow ==
    \A i \in 1..Len(hist) :
        /\ (/\ check.rise <= 1
            /\ ~hist[i].before.advertised
            /\ hist[i].result = "success") => Announced(i)
        /\ (/\ check.fall <= 1
            /\ hist[i].before.state = "up"
            /\ hist[i].result = "failure") => Withdrawn(i)

\* C4: a failure in state rising with rise counter rise-1 gives state down
\* with no rise counter and advertised false, and of the successes that
\* follow it only the rise-th announces.
C4_FailureResetsRise ==
    \A i \in 1..Len(hist) :
        (/\ hist[i].before.state = "rising"
         /\ hist[i].before.rise = check.rise - 1
         /\ hist[i].result = "failure")
        => /\ hist[i].after.state = "down"
           /\ hist[i].after.rise = None
           /\ ~hist[i].after.advertised
           /\ \A k \in 1..(Len(hist) - i) :
                 RunOf(i + 1, k, "success")
                 => /\ (k < check.rise => NotAnnounced(i + k))
                    /\ (k = check.rise => Announced(i + k))

C4_Witness ==
    \E i \in 1..Len(hist) :
        /\ hist[i].before.state = "rising"
        /\ hist[i].before.rise = check.rise - 1
        /\ hist[i].result = "failure"
        /\ i + check.rise <= Len(hist)
        /\ RunOf(i + 1, check.rise, "success")
        /\ Announced(i + check.rise)

\* C5: a success while advertised writes no announce command and sends no
\* announce notification; a failed or disabled result while not advertised
\* writes no withdraw command and sends no withdraw notification; announce()
\* on an advertised state and withdraw() on a not advertised state change
\* nothing.
C5_Idempotent ==
    /\ \A i \in 1..Len(hist) :
          /\ (hist[i].before.advertised /\ hist[i].result = "success")
             => /\ CountCmd(hist[i].cmds, "announce") = 0
                /\ CountEvt(hist[i].evts, "announce") = 0
          /\ (~hist[i].before.advertised /\ hist[i].result # "success")
             => /\ CountCmd(hist[i].cmds, "withdraw") = 0
                /\ CountEvt(hist[i].evts, "withdraw") = 0
    /\ check_state.advertised
       => announce(check_state, IO(out, notes)) = IO(out, notes)
    /\ ~check_state.advertised
       => withdraw(check_state, IO(out, notes)) = IO(out, notes)

C5_Witness ==
    /\ \E i \in 1..Len(hist) :
          hist[i].before.advertised /\ hist[i].result = "success"
    /\ \E i \in 1..Len(hist) :
          /\ ~hist[i].before.advertised
          /\ hist[i].before.state = "down"
          /\ hist[i].result = "failure"
    /\ \E i \in 1..Len(hist) :
          ~hist[i].before.advertised /\ hist[i].result = "disabled"

\* C6: with rise = 2 the results failure, success, success from startup give
\* the states down, rising with counter 1, up, and the only announce is
\* written by the third iteration.
C6_Scenario ==
    (/\ check.rise = 2
     /\ Len(hist) >= 3
     /\ hist[1].before.state = "startup"
     /\ hist[1].result = "failure"
     /\ hist[2].result = "success"
     /\ hist[3].result = "success")
    => /\ hist[1].after.state = "down"
       /\ hist[2].after.state = "rising" /\ hist[2].after.rise = 1
       /\ hist[3].after.state = "up"
       /\ CountCmd(hist[1].cmds, "announce") = 0
       /\ CountCmd(hist[2].cmds, "announce") = 0
       /\ CountCmd(hist[3].cmds, "announce") = 1
       /\ CountEvt(hist[3].evts, "announce") = 1

C6_Witness ==
    /\ check.rise = 2
    /\ Len(hist) = 3
    /\ hist[1].result = "failure"
    /\ hist[2].result = "success"
    /\ hist[3].result = "success"
    /\ check_state.state = "up"
    /\ CountCmd(out, "announce") = 1

\* C7: an iteration that finds the disable file runs no probe, ends in
\* state disabled with advertised false, and writes exactly one withdraw if
\* the route was advertised when it began and none otherwise.
C7_DisableFile ==
    \A i \in 1..Len(hist) :
        hist[i].disable_exists
        => /\ ~hist[i].probed
           /\ hist[i].after.state = "disabled"
           /\ ~hist[i].after.advertised
           /\ CountCmd(hist[i].cmds, "withdraw")
                = (IF hist[i].before.advertised THEN 1 ELSE 0)
           /\ CountEvt(hist[i].evts, "withdraw")
                = (IF hist[i].before.advertised THEN 1 ELSE 0)
           /\ CountCmd(hist[i].cmds, "announce") = 0

C7_Witness ==
    /\ \E i \in 1..Len(hist) :
          /\ hist[i].disable_exists
          /\ hist[i].before.advertised
          /\ CountCmd(hist[i].cmds, "withdraw") = 1
    /\ \E i \in 1..Len(hist) :
          /\ hist[i].disable_exists
          /\ ~hist[i].before.advertised

\* C8: the step that takes the worker from running to exited appends one
\* silent withdraw to the output if check_state.advertised and nothing
\* otherwise, and sends no notification; the withdraw is in the output once
\* the worker has exited.
C8_CleanupWithdrawsOnce ==
    /\ [][(wpc = "running" /\ wpc' = "exited")
          => /\ out' = (IF check_state.advertised
                        THEN Append(out, [command |-> "withdraw", silent |-> TRUE])
                        ELSE out)
             /\ notes' = notes]_vars
    /\ [](wpc = "exited" /\ check_state.advertised
          => /\ out # <<>>
             /\ out[Len(out)] = [command |-> "withdraw", silent |-> TRUE])

C8_Witness ==
    /\ wpc = "exited"
    /\ check_state.advertised
    /\ out # <<>>
    /\ out[Len(out)] = [command |-> "withdraw", silent |-> TRUE]
    /\ CountCmd(out, "withdraw") = 1

\* ======================================================================
\* Properties of the master process (checked under SpecSup)
\* ======================================================================

\* the registry entry of name n in the registry js
JobOf(js, n) == js[CHOOSE k \in 1..Len(js) : js[k].check.name = n]

\* the notifications of the reload steps (start, removal, restart) naming n
ReloadNotes(n) ==
    {k \in 1..Len(last.notes) : last.notes[k].name = n /\ last.notes[k].event = "info"}

\* C9: a successful reload stops exactly the workers whose name is not in
\* the new list, starts one worker for each name not in the old list,
\* restarts (terminate the old process, create a new one) exactly the
\* workers whose check differs, and leaves the entry, the process and the
\* notifications of every identical check alone.
C9_ReloadDiff ==
    last.reloaded =>
        LET old == last.old
            oldN == Range(NamesOf(old.checks))
            newN == Range(NamesOf(settings.checks))
            removed == oldN \ newN
            added == newN \ oldN
            changed == {n \in oldN \cap newN :
                           get_check_name(old, n) # get_check_name(settings, n)}
            same == (oldN \cap newN) \ changed
        IN  /\ NoDup(last.stopped) /\ Range(last.stopped) = removed
            /\ NoDup(last.started) /\ Range(last.started) = added
            /\ NoDup(last.restarted) /\ Range(last.restarted) = changed
            /\ NoDup(last.terminated)
            /\ Range(last.terminated)
                 = {JobOf(last.oldjobs, n).proc : n \in removed \cup changed}
            /\ Len(last.created)
                 = Len(last.respawned) + Cardinality(added) + Cardinality(changed)
            /\ \A n \in changed :
                  /\ JobOf(jobs, n).proc \in Range(last.created)
                  /\ JobOf(jobs, n).proc \notin Range(last.terminated)
                  /\ JobOf(jobs, n).check = get_check_name(settings, n)
            /\ \A n \in same :
                  /\ JobOf(jobs, n) = JobOf(last.oldjobs, n)
                  /\ JobOf(jobs, n).proc \notin Range(last.terminated)
                  /\ ReloadNotes(n) = {}

\* old checks {A, B}, new checks {B, C} with B unchanged: C started, A
\* stopped, nothing restarted
C9_Witness ==
    /\ last.reloaded
    /\ Range(NamesOf(last.old.checks)) = {"A", "B"}
    /\ Range(NamesOf(settings.checks)) = {"B", "C"}
    /\ get_check_name(last.old, "B") = get_check_name(settings, "B")
    /\ last.started = <<"C">>
    /\ last.stopped = <<"A">>
    /\ last.restarted = <<>>

\* C10: once the workers are started the registry holds exactly one entry
\* per configured check name, each with the Check of the current settings,
\* whatever respawns and reloads have happened.
C10_RegistryMatchesSettings ==
    /\ spc # "crashed"
    /\ spc = "loop" =>
          /\ Range(JobNames(jobs)) = Range(NamesOf(settings.checks))
          /\ NoDup(JobNames(jobs))
          /\ Len(jobs) = Len(settings.checks)
          /\ \A k \in 1..Len(jobs) :
                jobs[k].check = get_check_name(settings, jobs[k].check.name)

\* a tick that respawned a dead worker and then reloaded, stopping one
\* worker and restarting another
C10_Witness ==
    /\ spc = "loop"
    /\ last.reloaded
    /\ last.respawned # <<>>
    /\ last.stopped # <<>>
    /\ last.restarted # <<>>
    /\ Len(jobs) = 1

\* a step of the monitoring loop (the environment steps change neither)
IsMonitorStep == spc = "loop" /\ (next_pid' # next_pid \/ last' # last)

\* the "error" notifications of the last tick naming n
ErrorNotes(rec, n) ==
    {k \in 1..Len(rec.notes) : rec.notes[k] = Note("error", "Worker Failure", n)}

\* C11: on every monitoring tick each registry entry whose process is not
\* alive is replaced in place by a freshly created and started worker for
\* the same Check, with exactly one "error" notification; the registry
\* keeps its length and its names, and the entries whose process is alive
\* are unchanged.  (last'.oldjobs is the registry after the respawn pass,
\* before the reload step of the same tick.)
C11_RespawnInPlace ==
    [][IsMonitorStep =>
        LET after == last'.oldjobs
            dead == {i \in 1..Len(jobs) : jobs[i].proc \notin alive}
        IN  /\ Len(after) = Len(jobs)
            /\ JobNames(after) = JobNames(jobs)
            /\ \A i \in 1..Len(jobs) :
                  IF i \in dead
                  THEN /\ after[i].check = jobs[i].check
                       /\ after[i].proc >= next_pid
                       /\ after[i].proc \in Range(last'.created)
                       /\ after[i].proc \in alive' \cup Range(last'.terminated)
                       /\ Cardinality(ErrorNotes(last', jobs[i].check.name)) = 1
                  ELSE /\ after[i] = jobs[i]
                       /\ ErrorNotes(last', jobs[i].check.name) = {}
            /\ \A i, j \in dead : i # j => after[i].proc # after[j].proc
            /\ Len(last'.respawned) = Cardinality(dead)
    ]_vars

\* a tick that found one of two workers dead: one respawn, one "error"
\* notification, the other entry left alone
C11_Witness ==
    /\ spc = "loop"
    /\ Len(last.oldjobs) = 2
    /\ Len(last.respawned) = 1
    /\ Cardinality(ErrorNotes(last, last.respawned[1])) = 1
    /\ ~last.attempted

\* C12: when the modified configuration file does not parse or does not
\* validate, the reload of that tick leaves the settings, the notifier and
\* the registry as they were (nothing is started, stopped, restarted or
\* terminated; only the respawn pass of the same tick creates processes),
\* the new modification time is recorded, and a tick that finds the
\* recorded modification time on the file attempts no reload: mtime only
\* moves when the file's modification time differs from it.
C12_FailedReloadKeepsOld ==
    /\ [][(IsMonitorStep /\ settings.live_reload /\ mtime # file_mtime
                          /\ file.kind # "ok") =>
            /\ last'.attempted /\ ~last'.reloaded
            /\ settings' = settings
            /\ notifier' = notifier
            /\ jobs' = last'.oldjobs
            /\ last'.started = <<>> /\ last'.stopped = <<>>
            /\ last'.restarted = <<>> /\ last'.terminated = <<>>
            /\ Len(last'.created) = Len(last'.respawned)
            /\ mtime' = file_mtime
            /\ spc' = "loop"]_vars
    /\ [][(IsMonitorStep /\ mtime = file_mtime) =>
            /\ ~last'.attempted
            /\ settings' = settings
            /\ mtime' = mtime]_vars
    /\ [][mtime' # mtime => mtime # file_mtime /\ mtime' = file_mtime]_vars

\* an invalid or unparsable file was seen by a tick (its modification time
\* is recorded), the old checks are still configured and running, and the
\* last tick did not attempt a reload again
C12_Witness ==
    /\ spc = "loop"
    /\ settings.live_reload
    /\ file.kind \in {"unparsable", "invalid"}
    /\ mtime = file_mtime /\ mtime > 0
    /\ ~last.attempted
    /\ settings.checks # <<>>
    /\ Len(jobs) = Len(settings.checks)

\* ======================================================================
\* Properties of the master process and its environment (SpecSupEnv)
\* ======================================================================

\* C13: no failure of the reload step ends the master: whatever the state
\* of the configuration file (missing, unparsable, invalid), the monitoring
\* loop goes on to its next tick and its workers stay supervised.
C13_ReloadNeverFatal ==
    [][(spc = "loop" /\ file.kind \in {"missing", "unparsable", "invalid"})
          => spc' # "crashed"]_vars

\* C14 as stated: the workers alive before the signal are still running
\* after the master has exited.
C14_WorkersSurvive ==
    [][(spc = "loop" /\ spc' = "exited") => alive' = alive]_vars

\* C14 (amended): a SIGINT / SIGTERM received in the monitoring loop sends
\* exactly one shutdown notification and ends the master, and because the
\* workers are daemonic processes none of them is running afterwards; the
\* registry is not touched.
C14_ShutdownEndsWorkers ==
    /\ [][(spc = "loop" /\ spc' = "exited") =>
            /\ last'.notes = <<Note("info", "ExaCheck Process Terminated", "")>>
            /\ alive' = {}
            /\ jobs' = jobs]_vars
    /\ [](spc = "exited" => alive = {})

\* the master was signalled while it supervised two workers
C14_Witness ==
    /\ spc = "exited"
    /\ Len(jobs) = 2
    /\ last.notes = <<Note("info", "ExaCheck Process Terminated", "")>>

\* ======================================================================
\* Properties of the check executor (checked under SpecExec)
\* ======================================================================

\* C15: when the deadline expires while the probe has not returned, the
\* call that returns does so with success = false and the timeout message.
C15_TimeoutResult ==
    (outcome = "returned" /\ fired = "probe") =>
        /\ eresult.success = FALSE
        /\ eresult.message = TimeoutResult.message

\* C16: outside execute() no alarm is pending and none is delivered; a
\* pending alarm is the one of the current call, due timeout seconds after
\* that call set it, and it is delivered at that time, never earlier.
C16_NoAlarmOutside ==
    /\ [](epc \notin Inside => alarm = 0)
    /\ [](alarm # 0 => alarm = started + timeout)
    /\ [](outcome # "misfire" /\ fired # "outside")
    /\ [][fired' # fired /\ fired' # "none" =>
            epc \in Inside /\ clock = started + timeout]_vars

\* a second call of execute() is in its probe, after a first call that
\* returned with time left on its alarm, at a time later than the first
\* call's deadline would have been
C16_Witness ==
    /\ calls = 2
    /\ epc = "probe"
    /\ timeout = 2
    /\ started = 1
    /\ clock = 2
    /\ alarm = 3

\* C17: a call of execute() never ends by propagating an exception, and
\* when the probe raised the result is a failure carrying the exception.
C17_NeverPropagates ==
    /\ outcome # "raised"
    /\ (outcome = "returned" /\ probed \in {"DNSResolutionError", "Exception"}
           /\ fired = "none") =>
          eresult = ExceptionResult(probed)

\* ======================================================================
\* Properties of the Sleeper (checked under SpecSleeper)
\* ======================================================================

\* the iteration time measured by finish()
Elapsed == finish_time - _start

\* C18: after finish(), sleep_time = I - e when e <= I and I - e is at
\* least one second, and one second otherwise; so it is never below one
\* second, I = 10 s with e = 3 s gives 7 s and with e = 12 s gives 1 s.
C18_SleepTime ==
    slpc # "started" =>
        /\ _sleep_time = IF Elapsed <= _interval /\ _interval - Elapsed >= Second
                         THEN _interval - Elapsed
                         ELSE Second
        /\ _sleep_time >= Second
        /\ (_interval = 10 * Second /\ Elapsed = 3 * Second) => _sleep_time = 7 * Second
        /\ (_interval = 10 * Second /\ Elapsed = 12 * Second) => _sleep_time = Second

\* the example of the claim: interval 10 s, iteration of 3 s, sleep of 7 s
C18_Witness ==
    /\ slpc = "finished"
    /\ _interval = 10 * Second
    /\ Elapsed = 3 * Second
    /\ _sleep_time = 7 * Second

\* ======================================================================
\* Properties of the announcer (checked under SpecAnnouncer)
\* ======================================================================

\* the number of occurrences of the string pat in the string s
CountSub(s, pat) ==
    Cardinality({i \in 1..(Len(s) - Len(pat) + 1) :
                    SubSeq(s, i, i + Len(pat) - 1) = pat})

\* the position of the first occurrence of pat in s (0 when there is none)
FirstSub(s, pat) ==
    IF CountSub(s, pat) = 0 THEN 0
    ELSE CHOOSE i \in 1..(Len(s) - Len(pat) + 1) :
            /\ SubSeq(s, i, i + Len(pat) - 1) = pat
            /\ \A j \in 1..(i - 1) : SubSeq(s, j, j + Len(pat) - 1) # pat

\* the shape of a community string: its number of colons, when it is made
\* of non-empty decimal fields of at most ten digits (an AS number or a
\* 32-bit value) separated by single colons, and 0 for anything else
Colons(c) == Cardinality({i \in 1..Len(c) : c[i] = ":"})

Numeric(c) ==
    /\ c # <<>>
    /\ \A i \in 1..Len(c) : c[i] \in Digits \cup {":"}
    /\ c[1] # ":" /\ c[Len(c)] # ":"
    /\ \A i \in 1..(Len(c) - 1) : ~(c[i] = ":" /\ c[i + 1] = ":")
    /\ \A i \in 1..(Len(c) - MaxDigits) :
          \E j \in i..(i + MaxDigits) : c[j] = ":"

Shape(c) == IF Numeric(c) THEN Colons(c) ELSE 0

\* the clause of one bucket: its keyword and its members in list order
Clause(keyword, members) ==
    IF members = <<>> THEN <<>>
    ELSE <<keyword \o <<" ", "[">> \o Join(members, <<" ">>) \o <<"]">>>>

\* C19: every configured community is placed in exactly one bucket by its
\* shape (ASN:VALUE standard, ASN:ASN:VALUE large, anything else
\* extended), and the clause rendered into every route is
\* "community [...]", "large-community [...]", "extended-community [...]"
\* in that order, a bucket appearing once when it has members and not at
\* all when it has none, its members in configuration order.
C19_CommunityBuckets ==
    apc # "new" =>
        LET cs == acheck.communities
            IsStd(c) == Shape(c) = 1
            IsLrg(c) == Shape(c) = 2
            IsExt(c) == Shape(c) \notin {1, 2}
            expected ==
                Join(Clause(<<"c", "o", "m", "m", "u", "n", "i", "t", "y">>, SelectSeq(cs, IsStd))
                     \o Clause(<<"l", "a", "r", "g", "e", "-", "c", "o", "m", "m", "u", "n", "i", "t", "y">>, SelectSeq(cs, IsLrg))
                     \o Clause(<<"e", "x", "t", "e", "n", "d", "e", "d", "-", "c", "o", "m", "m", "u", "n", "i", "t", "y">>, SelectSeq(cs, IsExt)), <<" ">>)
        IN  /\ _generate_communities(cs) = expected
            /\ \A i \in 1..Len(routes) :
                  /\ cs # <<>> =>
                        /\ Len(routes[i]) > Len(expected)
                        /\ SubSeq(routes[i], Len(routes[i]) - Len(expected),
                                  Len(routes[i])) = <<" ">> \o expected
                  /\ CountSub(routes[i], <<" ", "c", "o", "m", "m", "u", "n", "i", "t", "y", " ", "[">>)
                        = IF \E k \in 1..Len(cs) : IsStd(cs[k]) THEN 1 ELSE 0
                  /\ CountSub(routes[i], <<" ", "l", "a", "r", "g", "e", "-", "c", "o", "m", "m", "u", "n", "i", "t", "y", " ", "[">>)
                        = IF \E k \in 1..Len(cs) : IsLrg(cs[k]) THEN 1 ELSE 0
                  /\ CountSub(routes[i], <<" ", "e", "x", "t", "e", "n", "d", "e", "d", "-", "c", "o", "m", "m", "u", "n", "i", "t", "y", " ", "[">>)
                        = IF \E k \in 1..Len(cs) : IsExt(cs[k]) THEN 1 ELSE 0

\* a check with an extended, a large and a standard community, configured
\* in that order, and two prefixes
C19_Witness ==
    /\ apc = "ready"
    /\ acheck.communities = <<<<"n", "o", "-", "e", "x", "p", "o", "r", "t">>, <<"6", "5", "0", "0", "0", ":", "1", "0", "0", ":", "5">>, <<"6", "5", "0", "0", "0", ":", "1", "0", "0">>>>
    /\ Len(routes) = 2

\* the communities of the round-trip example
ExampleCommunities == <<<<"6", "5", "0", "0", "0", ":", "1", "0", "0">>, <<"6", "5", "0", "0", "0", ":", "1", "0", "0", ":", "5">>, <<"6", "5", "0", "0", "0", ":", "9", "9", "9", "0", "0", "0", "0", "0", "0">>>>

\* C20 as stated: with communities ["65000:100", "65000:100:5",
\* "65000:999000000"] every emitted line contains exactly one
\* "community [65000:100]", one "large-community [65000:100:5]" and one
\* "extended-community [65000:999000000]", in that order.
C20_RoundTrip ==
    (apc = "sent" /\ acheck.communities = ExampleCommunities) =>
        \A i \in 1..Len(lines) :
            /\ CountSub(lines[i], <<"c", "o", "m", "m", "u", "n", "i", "t", "y", " ", "[", "6", "5", "0", "0", "0", ":", "1", "0", "0", "]">>) = 1
            /\ CountSub(lines[i], <<"l", "a", "r", "g", "e", "-", "c", "o", "m", "m", "u", "n", "i", "t", "y", " ", "[", "6", "5", "0", "0", "0", ":", "1", "0", "0", ":", "5", "]">>) = 1
            /\ CountSub(lines[i], <<"e", "x", "t", "e", "n", "d", "e", "d", "-", "c", "o", "m", "m", "u", "n", "i", "t", "y", " ", "[", "6", "5", "0", "0", "0", ":", "9", "9", "9", "0", "0", "0", "0", "0", "0", "]">>) = 1
            /\ FirstSub(lines[i], <<"c", "o", "m", "m", "u", "n", "i", "t", "y", " ", "[", "6", "5", "0", "0", "0", ":", "1", "0", "0", "]">>) < FirstSub(lines[i], <<"l", "a", "r", "g", "e", "-", "c", "o", "m", "m", "u", "n", "i", "t", "y", " ", "[", "6", "5", "0", "0", "0", ":", "1", "0", "0", ":", "5", "]">>)
            /\ FirstSub(lines[i], <<"l", "a", "r", "g", "e", "-", "c", "o", "m", "m", "u", "n", "i", "t", "y", " ", "[", "6", "5", "0", "0", "0", ":", "1", "0", "0", ":", "5", "]">>) < FirstSub(lines[i], <<"e", "x", "t", "e", "n", "d", "e", "d", "-", "c", "o", "m", "m", "u", "n", "i", "t", "y", " ", "[", "6", "5", "0", "0", "0", ":", "9", "9", "9", "0", "0", "0", "0", "0", "0", "]">>)

\* C20 (amended): with communities ["65000:100", "65000:100:5",
\* "65000:999000000"] every emitted line contains exactly one
\* "community [65000:100 65000:999000000]" followed by exactly one
\* "large-community [65000:100:5]", and no extended-community clause.
C20_RoundTripStandard ==
    (apc = "sent" /\ acheck.communities = ExampleCommunities) =>
        /\ Len(lines) = Len(acheck.prefixes)
        /\ \A i \in 1..Len(lines) :
            /\ CountSub(lines[i], <<"c", "o", "m", "m", "u", "n", "i", "t", "y", " ", "[", "6", "5", "0", "0", "0", ":", "1", "0", "0", " ", "6", "5", "0", "0", "0", ":", "9", "9", "9", "0", "0", "0", "0", "0", "0", "]">>) = 1
            /\ CountSub(lines[i], <<"l", "a", "r", "g", "e", "-", "c", "o", "m", "m", "u", "n", "i", "t", "y", " ", "[", "6", "5", "0", "0", "0", ":", "1", "0", "0", ":", "5", "]">>) = 1
            /\ CountSub(lines[i], <<"e", "x", "t", "e", "n", "d", "e", "d", "-", "c", "o", "m", "m", "u", "n", "i", "t", "y">>) = 0
            /\ CountSub(lines[i], <<"c", "o", "m", "m", "u", "n", "i", "t", "y">>) = 2
            /\ FirstSub(lines[i], <<"c", "o", "m", "m", "u", "n", "i", "t", "y", " ", "[", "6", "5", "0", "0", "0", ":", "1", "0", "0", " ", "6", "5", "0", "0", "0", ":", "9", "9", "9", "0", "0", "0", "0", "0", "0", "]">>) < FirstSub(lines[i], <<"l", "a", "r", "g", "e", "-", "c", "o", "m", "m", "u", "n", "i", "t", "y", " ", "[", "6", "5", "0", "0", "0", ":", "1", "0", "0", ":", "5", "]">>)

\* the example check with two prefixes has been announced
C20_Witness ==
    /\ apc = "sent"
    /\ acheck.communities = ExampleCommunities
    /\ Len(lines) = 2
    /\ SubSeq(lines[1], 1, 8) = <<"a", "n", "n", "o", "u", "n", "c", "e">>

\* ======================================================================
\* Properties of the rendered lines (checked under SpecRoutes)
\* ======================================================================

\* C21: every emitted line contains the clause "med <n>" exactly when the
\* check has a metric slot (metric or metric_down configured) and a metric
\* value is supplied to the call (the worker supplies check.metric); in
\* every other case the line holds no MED clause, no placeholder and no
\* text of an absent value.
C21_MedClause ==
    apc = "sent" =>
        LET slot == acheck.metric # Unset \/ acheck.metric_down # Unset
            supplied == acheck.metric # Unset
        IN  \A i \in 1..Len(lines) :
               /\ CountSub(lines[i], <<"N", "o", "n", "e">>) = 0
               /\ CountSub(lines[i], <<"{">>) = 0
               /\ IF slot /\ supplied
                  THEN /\ CountSub(lines[i], <<" ", "m", "e", "d", " ">>) = 1
                       /\ CountSub(lines[i], <<" ", "m", "e", "d", " ">> \o IntToStr(acheck.metric) \o <<" ">>)
                          + (IF SubSeq(lines[i],
                                       Len(lines[i]) - Len(IntToStr(acheck.metric)) - 4,
                                       Len(lines[i]))
                                  = <<" ", "m", "e", "d", " ">> \o IntToStr(acheck.metric)
                             THEN 1 ELSE 0) = 1
                  ELSE CountSub(lines[i], <<" ", "m", "e", "d", " ">>) = 0

\* the clause a configured attribute contributes, and nothing when the
\* attribute is not configured
IntClause(keyword, n) == IF n = Unset THEN <<>> ELSE <<keyword \o IntToStr(n)>>

\* C22: every announce or withdraw emits one line per configured prefix,
\* in order, and each line holds, in this order, the neighbor list, the
\* command, "route <prefix>", "next-hop <nexthop>", the MED clause,
\* "local-preference <n>", the community clauses, "as-path <path>" and
\* "path-information <id>", every configured attribute (whatever its
\* value) exactly once and no other.  (The MED clause is left to C21: the
\* comparison is made for the checks that have no metric configured.)
C22_ClauseOrder ==
    (apc = "sent" /\ acheck.metric = Unset /\ acheck.metric_down = Unset) =>
        /\ Len(lines) = Len(acheck.prefixes)
        /\ \A i \in 1..Len(lines) :
              \E command \in {<<"a", "n", "n", "o", "u", "n", "c", "e">>, <<"w", "i", "t", "h", "d", "r", "a", "w">>} :
                 lines[i] =
                    Join((IF acheck.neighbors = <<>> THEN <<>>
                          ELSE <<Join([k \in 1..Len(acheck.neighbors) |->
                                          <<"n", "e", "i", "g", "h", "b", "o", "r", " ">> \o acheck.neighbors[k]], <<",", " ">>)>>)
                         \o <<command,
                              <<"r", "o", "u", "t", "e", " ">> \o acheck.prefixes[i],
                              <<"n", "e", "x", "t", "-", "h", "o", "p", " ">> \o acheck.nexthop>>
                         \o IntClause(<<"l", "o", "c", "a", "l", "-", "p", "r", "e", "f", "e", "r", "e", "n", "c", "e", " ">>, acheck.local_preference)
                         \o (IF acheck.communities = <<>> THEN <<>>
                             ELSE <<_generate_communities(acheck.communities)>>)
                         \o (IF acheck.as_path = <<>> THEN <<>>
                             ELSE <<<<"a", "s", "-", "p", "a", "t", "h", " ">> \o acheck.as_path>>)
                         \o IntClause(<<"p", "a", "t", "h", "-", "i", "n", "f", "o", "r", "m", "a", "t", "i", "o", "n", " ">>, acheck.path_id),
                         <<" ">>)

\* ======================================================================
\* Properties of check validation (checked under SpecValidator)
\* ======================================================================

\* C23: validation rejects with a validation error every check whose next
\* hop is an IPv4 address while some prefix is not IPv4, or whose next hop
\* is an IPv6 address while some prefix is not IPv6; a check whose next hop
\* family matches all its prefixes, or whose next hop is "self", is
\* accepted.
C23_NexthopFamily ==
    verdict # "none" =>
        LET some_not(cls) ==
                \E i \in 1..Len(candidate.prefixes) : candidate.prefixes[i] # cls
            mismatch ==
                \/ candidate.nexthop = "IPv4Address" /\ some_not("IPv4Network")
                \/ candidate.nexthop = "IPv6Address" /\ some_not("IPv6Network")
        IN  verdict = IF mismatch THEN "ValidationError" ELSE "accepted"

\* an IPv6 next hop with IPv4 and IPv6 prefixes has been rejected
C23_Witness ==
    /\ verdict = "ValidationError"
    /\ candidate.nexthop = "IPv6Address"
    /\ candidate.prefixes = <<"IPv6Network", "IPv4Network">>

\* ======================================================================
\* Further properties of the worker (checked under Spec)
\* ======================================================================

\* C24: while the worker stays not advertised, a failed probe that follows
\* a failed probe leaves down_since as the earlier failure (the first
\* failure after being up, or the withdrawal) set it.
C24_DownSinceKept ==
    \A i \in 2..Len(hist) :
       (/\ hist[i - 1].result = "failure"
        /\ hist[i].result = "failure"
        /\ ~hist[i - 1].after.advertised
        /\ hist[i].before = hist[i - 1].after)
       => hist[i].after.down_since = hist[i - 1].after.down_since

\* C25: a withdraw notification sent in an iteration in which the disable
\* file exists gives the reason "disabled"; one sent in an iteration whose
\* probe failed gives the reason "failed".
C25_WithdrawReason ==
    \A i \in 1..Len(hist) :
       \A k \in 1..Len(hist[i].evts) :
          hist[i].evts[k].event = "withdraw" =>
             hist[i].evts[k].reason =
                IF hist[i].disable_exists THEN "disabled" ELSE "failed"

\* C26: in every reachable CheckState, advertised holds exactly in the
\* states up and falling; the rise counter is set exactly in the state
\* rising and the fall counter exactly in the state falling, and a counter
\* that is set is at least 1; startup is not re-entered once a probe result
\* has been handled.
C26_CheckStateShape ==
    /\ check_state.advertised <=> check_state.state \in {"up", "falling"}
    /\ check_state.rise # None <=> check_state.state = "rising"
    /\ check_state.fall # None <=> check_state.state = "falling"
    /\ check_state.rise # None => check_state.rise >= 1
    /\ check_state.fall # None => check_state.fall >= 1
    /\ Len(hist) >= 1 => check_state.state # "startup"
    /\ check_state.state \in {"startup", "rising", "up", "falling", "down", "disabled"}

\* the worker rose, was up, and has now failed twice below its fall threshold
C26_Witness ==
    /\ check_state.state = "falling"
    /\ check_state.fall = 2
    /\ \E i \in 1..Len(hist) : hist[i].after.state = "rising"
    /\ \E i \in 1..Len(hist) : hist[i].after.state = "up"

\* ======================================================================
\* Properties of the worker under signals (checked under SpecWorkerSig)
\* ======================================================================

\* C27: whenever a worker that has emitted an announce has exited on
\* SIGINT or SIGTERM, wherever in its loop the signal arrived, the last
\* command it emitted is a withdraw.
C27_NoRouteLeftAtExit ==
    (wpc = "exited" /\ \E i \in 1..Len(out) : out[i].command = "announce")
        => out[Len(out)].command = "withdraw"

\* ======================================================================
\* Properties of the routes in the routing daemon
\* ======================================================================

\* C28 (SpecRespawn): if from some point on the probes of the service fail
\* on every tick, then, also after a worker died without its exit handler
\* and was respawned, the route is eventually withdrawn for good: the
\* daemon does not keep an announced route.
C28_EventuallyWithdrawn ==
    <>[](service = "failing") => <>[](rib # "announce")

\* C29 (SpecRestart): once the terminated worker of a restart has exited,
\* it has written nothing after an announce of its replacement, and the
\* last command the routing daemon has seen agrees with the advertised flag
\* of the replacement.
C29_RestartOrdered ==
    prev.status = "exited" =>
        /\ ~late
        /\ cur.cs.advertised <=> rib = "announce"

\* ======================================================================
\* Properties of the remote probe (checked under SpecRemote)
\* ======================================================================

\* C30: when the deadline alarm has fired while one of several resolved
\* addresses was being checked, no later address is checked in that tick,
\* and the result the probe returns for the tick is a failure.
C30_DeadlineEndsProbe ==
    fired_at # 0 =>
        /\ addr = fired_at
        /\ \A k \in 1..Len(checked) : k > fired_at => checked[k].armed
        /\ mpc = "returned" => mresult = "failure"

====
